---------------------------- MODULE Spec2Model ----------------------------
(***************************************************************************)
(* API-credential rotation and rate limiting of gonussav3.  The repository *)
(* holds three managers of the same subsystem; each is modelled from its   *)
(* own source and explored under its own specification:                    *)
(*   SpecA  src/app.py                  AdvancedAPIKeyManager              *)
(*   SpecK  src/app/api_key_manager.py  APIKeyManager (trackers, RLock)    *)
(*   SpecM  src/app/api_manager.py      APIKeyConfig / APIKeyManager       *)
(* Time is the integer number of seconds read from the clock; a handler    *)
(* reads the clock once (the code's repeated time.time() calls inside one  *)
(* handler differ by microseconds).  An optional value is <<>> (None) or   *)
(* <<v>>.  A credential id is an integer; the integer order stands for the *)
(* string order of the api_key values.                                     *)
(***************************************************************************)
EXTENDS Integers, Sequences, FiniteSets, TLC

VARIABLES
    now,                \* the wall clock (time.time() / datetime.now()), seconds
    ticks,              \* how many times the clock has advanced
    calls,              \* how many outcomes (success, rate limit, failure) were reported
    api_keys,           \* the configured key list, in configuration order
    last,               \* the last call made and what it returned
    ghost,              \* history: what was reported for each key, and when
    \* ---- src/app.py AdvancedAPIKeyManager
    usage_stats, disabled_keys, failure_counts, last_used, last_rate_limit,
    status_file,        \* api_key_status.json
    \* ---- src/app/api_key_manager.py APIKeyManager
    usage_trackers, last_cleanup,
    \* ---- src/app/api_manager.py APIKeyManager
    key_configs, key_rotation_stats,
    \* ---- calls in progress
    threads,            \* per thread: where it is in the call it is making, and its locals
    lock,               \* the thread inside `with self._lock` of the manager (0: none)
    torn                \* None: api_key_status.json holds status_file whole (or is absent);
                        \* Some(W): open(..., 'w') has emptied it and only the entries of
                        \* the keys in W have been written to it since

varsA == <<usage_stats, disabled_keys, failure_counts, last_used, last_rate_limit, status_file>>
varsK == <<usage_trackers, last_cleanup>>
varsM == <<key_configs, key_rotation_stats>>
varsT == <<threads, lock, torn>>
vars == <<now, ticks, calls, api_keys, last, ghost, varsA, varsK, varsM, varsT>>

\* ------------------------------------------------------------------ bounds
MaxTicks == 2       \* clock advances per behaviour, one configured key
MaxCalls == 4       \* outcome reports per behaviour, one configured key
MaxTicks2 == 1      \* clock advances per behaviour, two configured keys
MaxCalls2 == 2      \* outcome reports per behaviour, two configured keys

\* ------------------------------------------------------- program constants
MINUTE == 60
HOUR == 3600
DAY == 86400

None == <<>>
Some(v) == <<v>>
IsSet(o) == o # <<>>
Val(o) == o[1]
\* Python truthiness of an Optional[float]: None and 0.0 are both false
Truthy(o) == o # <<>> /\ o[1] # 0

NoKey == 0
\* the value recorded for a call that raised an exception
Raised == 0 - 1

Min2(a, b) == IF a <= b THEN a ELSE b
Max2(a, b) == IF a >= b THEN a ELSE b

RECURSIVE Pow2(_)
Pow2(n) == IF n <= 0 THEN 1 ELSE 2 * Pow2(n - 1)

\* a / b < c / d for b, d > 0, by the continued-fraction expansion (no products)
RECURSIVE RatLess(_, _, _, _)
RatLess(a, b, c, d) ==
    LET qa == a \div b
        qc == c \div d
        ra == a % b
        rc == c % d
    IN  IF qa # qc THEN qa < qc
        ELSE IF rc = 0 THEN FALSE
        ELSE IF ra = 0 THEN TRUE
        ELSE RatLess(d, rc, b, ra)

\* ------------------------------------------------------------ configuration
KeyConfig(k, p, m, h, d, e) ==
    [api_key |-> k, priority |-> p, max_requests_per_minute |-> m,
     max_requests_per_hour |-> h, max_requests_per_day |-> d, enabled |-> e]

\* The configurations explored.  One credential: a single enabled key.  Two
\* credentials: priority 1 and 2 with one request per minute each, and equal
\* priority listed in descending id order.
Configs1 ==
    { << KeyConfig(1, 1, 2, 3, 3, TRUE) >> }
Configs2 ==
    { << KeyConfig(1, 1, 1, 2, 2, TRUE), KeyConfig(2, 2, 1, 2, 2, TRUE) >>,
      << KeyConfig(2, 1, 2, 2, 2, TRUE), KeyConfig(1, 1, 2, 2, 2, TRUE) >> }

\* two credentials of which the one of higher priority is disabled
ConfigsD ==
    { << KeyConfig(1, 1, 2, 2, 2, FALSE), KeyConfig(2, 2, 2, 2, 2, TRUE) >> }

\* the ids configured, and the budgets of the configuration
Configured == { api_keys[i].api_key : i \in DOMAIN api_keys }
Budget == IF Len(api_keys) = 1 THEN MaxCalls ELSE MaxCalls2
TickBudget == IF Len(api_keys) = 1 THEN MaxTicks ELSE MaxTicks2

StartTimes == {10 * DAY + 23 * HOUR}

ConfigOf(k) == api_keys[CHOOSE i \in DOMAIN api_keys : api_keys[i].api_key = k]

\* ------------------------------------------------------------------ clock
TickBy(D) ==
    /\ ticks < TickBudget
    /\ \E d \in D : now' = now + d
    /\ ticks' = ticks + 1
    /\ last' = [op |-> "tick", key |-> NoKey, ret |-> NoKey, avail |-> <<>>]
    /\ UNCHANGED <<varsT, calls, api_keys, ghost, varsA, varsK, varsM>>

NoUsage ==
    [requests_this_minute |-> <<>>, requests_this_hour |-> <<>>,
     requests_this_day |-> <<>>, total_requests |-> 0]

\* the request-handling threads, and a thread that is making no call
Threads == {1, 2}
Idle == [pc |-> "idle", op |-> "none", key |-> NoKey, t |-> 0, loc |-> None,
         doc |-> <<>>, pos |-> 0,
         max_wait_time |-> 0, start_time |-> 0, wait_time |-> 0,
         slept_at |-> 0, sleep |-> 0, sleeps |-> 0,
         api_key |-> NoKey, current_key_config |-> NoKey, attempt |-> 0,
         retry_count |-> 0, thinks |-> 0, upstream |-> <<>>, outcomes |-> <<>>,
         next_step_prompt |-> "original", original_prompt |-> "original",
         tried |-> <<>>]

InitCommon(Configs) ==
    /\ threads = [th \in Threads |-> Idle]
    /\ lock = 0
    /\ torn = None
    /\ now \in StartTimes
    /\ ticks = 0
    /\ calls = 0
    /\ api_keys \in Configs
    /\ last = [op |-> "init", key |-> NoKey, ret |-> NoKey, avail |-> <<>>]
    /\ ghost = [recorded |-> [k \in Configured |-> <<>>],
                limited_at |-> [k \in Configured |-> None],
                failed_at |-> [k \in Configured |-> None]]

(***************************************************************************)
(* src/app.py: AdvancedAPIKeyManager                                       *)
(***************************************************************************)
AState ==
    [usage_stats |-> usage_stats, disabled_keys |-> disabled_keys,
     failure_counts |-> failure_counts, last_used |-> last_used,
     last_rate_limit |-> last_rate_limit, status_file |-> status_file]

\* the entries of list s that are kept by `if current_time - t < w`
A_kept(s, t, w) ==
    LET Keep(x) == t - x < w IN SelectSeq(s, Keep)

\* a writer that loses every optional time
json_dump_null(o) == <<"null">>

\* json.dump and json.load of an Optional[float]: None is written null, a
\* float as the number whose repr reads back as the same float
json_dump(o) == IF o = None THEN <<"null">> ELSE <<"number", Val(o)>>
json_load(j) == IF j[1] = "null" THEN None ELSE Some(j[2])

\* save_api_key_status: the document json.dump writes for the status mapping
\* (lists of numbers and integers are written as they are)
save_api_key_status(status) ==
    [k \in DOMAIN status |->
        [usage_stats |-> status[k].usage_stats,
         failure_counts |-> status[k].failure_counts,
         last_used |-> json_dump(status[k].last_used),
         disabled_until |-> json_dump(status[k].disabled_until),
         last_rate_limit |-> json_dump(status[k].last_rate_limit)]]

\* load_api_key_status: the mapping json.load reads from api_key_status.json
\* ({} when the file does not exist; the absent file is written <<>>)
load_api_key_status(file) ==
    [k \in DOMAIN file |->
        [usage_stats |-> file[k].usage_stats,
         failure_counts |-> file[k].failure_counts,
         last_used |-> json_load(file[k].last_used),
         disabled_until |-> json_load(file[k].disabled_until),
         last_rate_limit |-> json_load(file[k].last_rate_limit)]]

persist_status(S) ==
    [S EXCEPT !.status_file = save_api_key_status(
        [k \in DOMAIN S.usage_stats |->
            [usage_stats |-> S.usage_stats[k],
             failure_counts |-> S.failure_counts[k],
             last_used |-> S.last_used[k],
             disabled_until |-> S.disabled_keys[k],
             last_rate_limit |-> S.last_rate_limit[k]]])]

A_clean_old_usage_data(S, k, t) ==
    [S EXCEPT !.usage_stats[k] =
        [@ EXCEPT !.requests_this_minute = A_kept(@, t, MINUTE),
                  !.requests_this_hour = A_kept(@, t, HOUR),
                  !.requests_this_day = A_kept(@, t, DAY)]]

disable_key_for_rate_limit(S, k, t) ==
    persist_status([S EXCEPT !.disabled_keys[k] = Some(t + 24 * 60 * 60)])

\* _is_key_available: the state it leaves and the value it returns.  `del
\* self.disabled_keys[api_key]` leaves the entry absent, which every reader
\* (`in` test, .get) treats as None.
A_is_key_available(S, kc, t) ==
    LET k == kc.api_key
        du == S.disabled_keys[k]
    IN  IF ~kc.enabled THEN [S |-> S, ret |-> FALSE]
        ELSE IF IsSet(du) /\ t < Val(du) THEN [S |-> S, ret |-> FALSE]
        ELSE
          LET S1 == IF IsSet(du)
                    THEN [S EXCEPT !.disabled_keys[k] = None, !.failure_counts[k] = 0]
                    ELSE S
              S2 == A_clean_old_usage_data(S1, k, t)
              st == S2.usage_stats[k]
          IN  IF Len(st.requests_this_minute) >= kc.max_requests_per_minute
                THEN [S |-> S2, ret |-> FALSE]
              ELSE IF Len(st.requests_this_hour) >= kc.max_requests_per_hour
                THEN [S |-> S2, ret |-> FALSE]
              ELSE IF Len(st.requests_this_day) >= kc.max_requests_per_day
                THEN [S |-> disable_key_for_rate_limit(S2, k, t), ret |-> FALSE]
              ELSE [S |-> S2, ret |-> TRUE]

\* _calculate_key_score before the floor, as the exact fraction <<num, den>>
\* (den > 0) of the float the code computes
A_raw_score(S, kc, t) ==
    LET k == kc.api_key
        st == S.usage_stats[k]
        ml == kc.max_requests_per_minute
        hl == kc.max_requests_per_hour
        dl == kc.max_requests_per_day
        mu == Len(st.requests_this_minute)
        hu == Len(st.requests_this_hour)
        du == Len(st.requests_this_day)
        capnum == 3 * ml * hl * dl - mu * hl * dl - hu * ml * dl - du * ml * hl
        capden == 3 * ml * hl * dl
        tnum == IF Truthy(S.last_used[k])
                THEN Min2(HOUR + (t - Val(S.last_used[k])), 2 * HOUR)
                ELSE HOUR
    IN  << 10 * capnum * tnum,
           Max2(kc.priority, 1) * capden * (S.failure_counts[k] + 1) * HOUR >>

calculate_key_score(S, kc, t) ==
    LET r == A_raw_score(S, kc, t)
    IN  IF RatLess(r[1], r[2], 1, 10) THEN <<1, 10>> ELSE r

\* the sort key of the non-random branch: (priority, -score, failures, api_key)
A_sort_less(S, a, b, t) ==
    LET sa == calculate_key_score(S, a, t)
        sb == calculate_key_score(S, b, t)
        fa == S.failure_counts[a.api_key]
        fb == S.failure_counts[b.api_key]
    IN  IF a.priority # b.priority THEN a.priority < b.priority
        ELSE IF RatLess(sb[1], sb[2], sa[1], sa[2]) THEN TRUE
        ELSE IF RatLess(sa[1], sa[2], sb[1], sb[2]) THEN FALSE
        ELSE IF fa # fb THEN fa < fb
        ELSE a.api_key < b.api_key

\* a filter without the rule of line 216
A_available_keys_retrying(S, t) ==
    { i \in DOMAIN api_keys :
        LET kc == api_keys[i]
            k == kc.api_key
        IN  /\ kc.enabled
            /\ ~(Truthy(S.disabled_keys[k]) /\ t < Val(S.disabled_keys[k])) }

\* the filter of get_available_api_key: the configurations it keeps
A_available_keys(S, t) ==
    { i \in DOMAIN api_keys :
        LET kc == api_keys[i]
            k == kc.api_key
        IN  /\ kc.enabled
            /\ ~(Truthy(S.disabled_keys[k]) /\ t < Val(S.disabled_keys[k]))
            /\ ~(Truthy(S.last_rate_limit[k]) /\ t - Val(S.last_rate_limit[k]) < 60) }

\* the values get_available_api_key can return (NoKey for None)
get_available_api_key(S, use_random, t) ==
    LET av == A_available_keys(S, t)
    IN  IF av = {} THEN {NoKey}
        ELSE IF use_random /\ Cardinality(av) > 1
          THEN { api_keys[i].api_key : i \in
                   { j \in av : LET w == calculate_key_score(S, api_keys[j], t)
                                IN  RatLess(0, 1, w[1], w[2]) } }
          ELSE { api_keys[i].api_key : i \in
                   { j \in av : \A o \in av \ {j} :
                                   A_sort_less(S, api_keys[j], api_keys[o], t) } }

record_successful_request(S, k, t) ==
    LET S1 == [S EXCEPT !.usage_stats[k] =
                   [@ EXCEPT !.requests_this_minute = Append(@, t),
                             !.requests_this_hour = Append(@, t),
                             !.requests_this_day = Append(@, t),
                             !.total_requests = @ + 1],
                        !.last_used[k] = Some(t)]
    IN  persist_status([persist_status(S1) EXCEPT !.failure_counts[k] = 0])

A_record_rate_limit_error(S, k, t) ==
    LET lst == S.last_rate_limit[k]
        S1 == IF Truthy(lst) /\ t - Val(lst) < 60
              THEN disable_key_for_rate_limit(S, k, t)
              ELSE S
    IN  persist_status([S1 EXCEPT !.last_rate_limit[k] = Some(t),
                                  !.failure_counts[k] = @ + 1])

A_record_failure(S, k, t) ==
    LET S1 == [S EXCEPT !.failure_counts[k] = @ + 1]
        f == S1.failure_counts[k]
        backoff_minutes == Min2(5 * Pow2(f - 5), 240)
    IN  IF f >= 5
        THEN persist_status([S1 EXCEPT !.disabled_keys[k] = Some(t + backoff_minutes * 60)])
        ELSE S1

\* get_keys_status: the loop over the configured keys from position i on;
\* acc collects the 'available' flag reported for each key
RECURSIVE get_keys_status(_, _, _, _)
get_keys_status(S, i, acc, t) ==
    IF i > Len(api_keys) THEN [S |-> S, avail |-> acc]
    ELSE LET kc == api_keys[i]
             r == A_is_key_available(A_clean_old_usage_data(S, kc.api_key, t), kc, t)
         IN  get_keys_status(r.S, i + 1, [acc EXCEPT ![kc.api_key] = r.ret], t)

A_Set(S) ==
    /\ usage_stats' = S.usage_stats
    /\ disabled_keys' = S.disabled_keys
    /\ failure_counts' = S.failure_counts
    /\ last_used' = S.last_used
    /\ last_rate_limit' = S.last_rate_limit
    /\ status_file' = S.status_file

\* the history after call o on key k: the times of the successes reported, of
\* the last rate-limit report without a reset time not followed by a success,
\* and of the last failure report
GhostAfter(o, k) ==
    CASE o = "success" ->
           [ghost EXCEPT !.recorded[k] = Append(@, now), !.limited_at[k] = None]
      [] o = "rate_limited" -> [ghost EXCEPT !.limited_at[k] = Some(now)]
      [] o = "rate_limited_until" -> [ghost EXCEPT !.limited_at[k] = None]
      [] o = "failure" -> [ghost EXCEPT !.failed_at[k] = Some(now)]
      [] OTHER -> ghost

Called(o, k, r, av) ==
    /\ last' = [op |-> o, key |-> k, ret |-> r, avail |-> av]
    /\ ghost' = GhostAfter(o, k)

\* an outcome report uses up one unit of the budget
Reported == calls < Budget /\ calls' = calls + 1

A_GetAvailableApiKey ==
    /\ \E use_random \in BOOLEAN :
         \E r \in get_available_api_key(AState, use_random, now) :
            Called(IF use_random THEN "select_random" ELSE "select_priority", NoKey, r, <<>>)
    /\ UNCHANGED <<varsT, now, ticks, calls, api_keys, varsA, varsK, varsM>>

A_RecordSuccessfulRequest ==
    /\ Reported
    /\ \E k \in Configured :
         /\ A_Set(record_successful_request(AState, k, now))
         /\ Called("success", k, NoKey, <<>>)
    /\ UNCHANGED <<varsT, now, ticks, api_keys, varsK, varsM>>

A_RecordRateLimitError ==
    /\ Reported
    /\ \E k \in Configured :
         /\ A_Set(A_record_rate_limit_error(AState, k, now))
         /\ Called("rate_limited", k, NoKey, <<>>)
    /\ UNCHANGED <<varsT, now, ticks, api_keys, varsK, varsM>>

A_RecordFailure ==
    /\ Reported
    /\ \E k \in Configured :
         /\ A_Set(A_record_failure(AState, k, now))
         /\ Called("failure", k, NoKey, <<>>)
    /\ UNCHANGED <<varsT, now, ticks, api_keys, varsK, varsM>>

A_GetKeysStatus ==
    /\ LET r == get_keys_status(AState, 1, [k \in Configured |-> FALSE], now)
       IN  /\ A_Set(r.S)
           /\ Called("status", NoKey, NoKey, r.avail)
    /\ UNCHANGED <<varsT, now, ticks, calls, api_keys, varsK, varsM>>

A_Deltas == {1, 59, 5 * MINUTE, DAY}
A_Tick == TickBy(A_Deltas)

\* the snapshots a previous run of the process can have left on disk: none, or
\* one written after four rate-limit reports more than a minute apart
PersistedA ==
    { <<>>,
      save_api_key_status(
        [k \in {1} |->
          [usage_stats |-> NoUsage, failure_counts |-> 4, last_used |-> None,
           disabled_until |-> None, last_rate_limit |-> Some(9 * DAY)]]) }

\* AdvancedAPIKeyManager.__init__: the runtime state built from the key list
\* and the snapshot read from the file
A_init(file) ==
    LET persisted == load_api_key_status(file)
        Has(k) == k \in DOMAIN persisted
    IN  [usage_stats |-> [k \in Configured |->
                             IF Has(k) THEN persisted[k].usage_stats ELSE NoUsage],
         failure_counts |-> [k \in Configured |->
                             IF Has(k) THEN persisted[k].failure_counts ELSE 0],
         last_used |-> [k \in Configured |->
                             IF Has(k) THEN persisted[k].last_used ELSE None],
         disabled_keys |-> [k \in Configured |->
                             IF Has(k) THEN persisted[k].disabled_until ELSE None],
         last_rate_limit |-> [k \in Configured |->
                             IF Has(k) THEN persisted[k].last_rate_limit ELSE None],
         status_file |-> file]

InitAOf(Configs, Persisted) ==
    /\ InitCommon(Configs)
    /\ status_file \in Persisted
    /\ LET S == A_init(status_file)
       IN  /\ usage_stats = S.usage_stats
           /\ disabled_keys = S.disabled_keys
           /\ failure_counts = S.failure_counts
           /\ last_used = S.last_used
           /\ last_rate_limit = S.last_rate_limit
    /\ usage_trackers = <<>>
    /\ last_cleanup = 0
    /\ key_configs = <<>>
    /\ key_rotation_stats = <<>>

InitA == InitAOf(Configs1, PersistedA)
InitA2 == InitAOf(Configs2, {<<>>})

NextA ==
    \/ A_GetAvailableApiKey
    \/ A_RecordSuccessfulRequest
    \/ A_RecordRateLimitError
    \/ A_RecordFailure
    \/ A_GetKeysStatus
    \/ A_Tick

\* ---- reports for a key that is not configured -------------------------------
\* an api_key string that no entry of the configuration holds
UnknownIds == {3}

\* record_successful_request, record_rate_limit_error and record_failure for
\* an api_key that is in none of the dictionaries: the state at the KeyError.
\* Line 241 (usage_stats[api_key]) and line 272 (failure_counts[api_key] += 1)
\* raise before any assignment; record_rate_limit_error has assigned
\* last_rate_limit[api_key] (line 265) when line 266 raises.
A_report_unknown(S, o, k, t) ==
    IF o = "rate_limited"
    THEN [S EXCEPT !.last_rate_limit =
             [x \in DOMAIN @ \cup {k} |-> IF x = k THEN Some(t) ELSE @[x]]]
    ELSE S

A_ReportUnknown ==
    /\ Reported
    /\ \E o \in {"success", "rate_limited", "failure"}, k \in UnknownIds :
         /\ A_Set(A_report_unknown(AState, o, k, now))
         /\ last' = [op |-> o, key |-> k, ret |-> Raised, avail |-> <<>>]
    /\ UNCHANGED <<varsT, now, ticks, api_keys, ghost, varsK, varsM>>

NextAU ==
    \/ NextA
    \/ A_ReportUnknown

SpecAU == InitA2 /\ [][NextAU]_vars

\* the process is started again: a new manager is constructed from the same
\* configuration and the snapshot on disk
A_Restart ==
    /\ A_Set(A_init(status_file))
    /\ last' = [op |-> "restart", key |-> NoKey, ret |-> NoKey, avail |-> <<>>]
    /\ UNCHANGED <<varsT, now, ticks, calls, api_keys, ghost, varsK, varsM>>

NextAR ==
    \/ NextA
    \/ A_Restart

SpecAR == InitA2 /\ [][NextAR]_vars

InitAD == InitAOf(ConfigsD, {<<>>})
SpecAD == InitAD /\ [][NextA]_vars
SpecA == InitA /\ [][NextA]_vars
SpecA2 == InitA2 /\ [][NextA]_vars

\* ---- AdvancedAPIKeyManager called from several threads.  The class has no
\* lock: the task threads started by the request handlers call its methods on
\* the one global instance, and a thread switch can fall between any two
\* statements.  Each report is split where it reads what it later acts on.
\* The clock is read once, at the start of the call.

\* record_rate_limit_error, lines 260-261: now and last are read
rate_limit_error_read(S, k) == S.last_rate_limit[k]

\* record_rate_limit_error, lines 262-267, with the values read before
rate_limit_error_write(S, k, t, lst) ==
    LET S1 == IF Truthy(lst) /\ t - Val(lst) < 60
              THEN disable_key_for_rate_limit(S, k, t)
              ELSE S
    IN  persist_status([S1 EXCEPT !.last_rate_limit[k] = Some(t),
                                  !.failure_counts[k] = @ + 1])

\* record_failure, line 272: the increment
failure_increment(S, k) == [S EXCEPT !.failure_counts[k] = @ + 1]

\* record_failure, lines 276-283: the count is read again
failure_backoff(S, k, t) ==
    LET f == S.failure_counts[k]
        backoff_minutes == Min2(5 * Pow2(f - 5), 240)
    IN  IF f >= 5
        THEN persist_status([S EXCEPT !.disabled_keys[k] = Some(t + backoff_minutes * 60)])
        ELSE S

\* record_successful_request, lines 240-250: the timestamps, last_used, persist
success_append(S, k, t) ==
    persist_status([S EXCEPT !.usage_stats[k] =
                       [@ EXCEPT !.requests_this_minute = Append(@, t),
                                 !.requests_this_hour = Append(@, t),
                                 !.requests_this_day = Append(@, t),
                                 !.total_requests = @ + 1],
                            !.last_used[k] = Some(t)])

\* record_successful_request, lines 253-254: the failure count, persist
success_reset(S, k) == persist_status([S EXCEPT !.failure_counts[k] = 0])

Reports == {"success", "rate_limited", "failure"}

\* a thread enters a report and runs its first part
A_ReportBegin(th) ==
    /\ threads[th].pc = "idle"
    /\ Reported
    /\ \E o \in Reports, k \in Configured :
         /\ threads' = [threads EXCEPT ![th] =
               [Idle EXCEPT !.pc = "mid", !.op = o, !.key = k, !.t = now,
                   !.loc = IF o = "rate_limited" THEN rate_limit_error_read(AState, k) ELSE None]]
         /\ A_Set(CASE o = "success" -> success_append(AState, k, now)
                    [] o = "failure" -> failure_increment(AState, k)
                    [] OTHER -> AState)
    /\ UNCHANGED <<lock, torn, now, ticks, api_keys, last, ghost, varsK, varsM>>

\* the thread runs the rest of its report and returns
A_ReportEnd(th) ==
    /\ threads[th].pc = "mid"
    /\ LET c == threads[th]
       IN  /\ A_Set(CASE c.op = "success" -> success_reset(AState, c.key)
                      [] c.op = "failure" -> failure_backoff(AState, c.key, c.t)
                      [] OTHER -> rate_limit_error_write(AState, c.key, c.t, c.loc))
           /\ threads' = [threads EXCEPT ![th].pc = "done"]
           /\ last' = [op |-> c.op, key |-> c.key, ret |-> NoKey, avail |-> <<>>]
    /\ UNCHANGED <<lock, torn, now, ticks, calls, api_keys, ghost, varsK, varsM>>

NextAC ==
    \/ \E th \in Threads : A_ReportBegin(th)
    \/ \E th \in Threads : A_ReportEnd(th)
    \/ A_Tick

SpecAC == InitA2 /\ [][NextAC]_vars

\* ---- the writes of save_api_key_status, step by step -----------------------
\* open(API_KEY_STATUS_FILE, 'w') empties the file, json.dump then writes the
\* document to it piece by piece (one piece per key here), and leaving the
\* `with` block closes it. The pieces of two documents are taken to have the
\* same length, so a file that holds one piece per key can be parsed.

\* the state after a call's assignments, before the call writes its snapshot
in_memory(S, R) == [R EXCEPT !.status_file = S.status_file]

\* the keys of which api_key_status.json has one entry each
Slots == 1..Len(api_keys)

\* record_successful_request, lines 240-250, up to the call of persist_status
A_SuccessEnter(th) ==
    /\ threads[th].pc = "idle"
    /\ Reported
    /\ \E k \in Configured :
         LET S1 == success_append(AState, k, now)
         IN  /\ A_Set(in_memory(AState, S1))
             /\ threads' = [threads EXCEPT ![th] =
                   [Idle EXCEPT !.pc = "open", !.op = "success", !.key = k, !.t = now,
                                !.loc = Some(1), !.doc = S1.status_file]]
    /\ UNCHANGED <<lock, torn, now, ticks, api_keys, last, ghost, varsK, varsM>>

\* save_api_key_status, line 33: open(..., 'w')
A_DumpOpen(th) ==
    /\ threads[th].pc = "open"
    /\ torn' = Some({})
    /\ status_file' = threads[th].doc
    /\ threads' = [threads EXCEPT ![th].pc = "dump", ![th].pos = 1]
    /\ UNCHANGED <<lock, now, ticks, calls, api_keys, last, ghost, varsK, varsM,
                   usage_stats, disabled_keys, failure_counts, last_used, last_rate_limit>>

\* save_api_key_status, line 34: json.dump writes the next piece at the
\* position of this thread's file object
A_DumpWrite(th) ==
    /\ threads[th].pc = "dump"
    /\ threads[th].pos \in Slots
    /\ LET c == threads[th]
       IN  /\ status_file' = [status_file EXCEPT ![c.pos] = c.doc[c.pos]]
           /\ torn' = IF torn = None THEN None ELSE Some(Val(torn) \cup {c.pos})
           /\ threads' = [threads EXCEPT ![th].pos = c.pos + 1]
    /\ UNCHANGED <<lock, now, ticks, calls, api_keys, last, ghost, varsK, varsM,
                   usage_stats, disabled_keys, failure_counts, last_used, last_rate_limit>>

\* the `with` block of save_api_key_status is left; record_successful_request
\* goes on with lines 253-254 after its first snapshot and returns after its
\* second
A_DumpClose(th) ==
    /\ threads[th].pc = "dump"
    /\ threads[th].pos \notin Slots
    /\ torn' = IF torn # None /\ Val(torn) = Slots THEN None ELSE torn
    /\ LET c == threads[th]
           S2 == success_reset(AState, c.key)
       IN  IF c.loc = Some(1)
           THEN /\ A_Set(in_memory(AState, S2))
                /\ threads' = [threads EXCEPT ![th].pc = "open", ![th].loc = Some(2),
                                              ![th].doc = S2.status_file]
                /\ UNCHANGED last
           ELSE /\ threads' = [threads EXCEPT ![th].pc = "done"]
                /\ last' = [op |-> c.op, key |-> c.key, ret |-> NoKey, avail |-> <<>>]
                /\ UNCHANGED varsA
    /\ UNCHANGED <<lock, now, ticks, calls, api_keys, ghost, varsK, varsM>>

\* the process is killed at any point and started again: the module is loaded
\* and line 325 constructs the manager from the file; json.load (line 29)
\* raises on a file that is empty or cut short
A_CrashAndStart ==
    /\ \E th \in Threads : threads[th].pc # "idle"
    /\ threads' = [th \in Threads |-> Idle]
    /\ IF torn = None
       THEN /\ A_Set(A_init(status_file))
            /\ last' = [op |-> "restart", key |-> NoKey, ret |-> NoKey, avail |-> <<>>]
       ELSE /\ last' = [op |-> "restart", key |-> NoKey, ret |-> Raised, avail |-> <<>>]
            /\ UNCHANGED varsA
    /\ UNCHANGED <<lock, torn, now, ticks, calls, api_keys, ghost, varsK, varsM>>

NextAW ==
    \/ \E th \in Threads : A_SuccessEnter(th)
    \/ \E th \in Threads : A_DumpOpen(th)
    \/ \E th \in Threads : A_DumpWrite(th)
    \/ \E th \in Threads : A_DumpClose(th)
    \/ A_CrashAndStart
    \/ A_Tick

SpecAW == InitA2 /\ [][NextAW]_vars

\* ---- the usage lists under several threads ----------------------------------
\* record_successful_request, statement by statement: the clock is read (line
\* 240), the time is appended to the minute list (244), to the hour list (245)
\* and to the day list (246), and the rest of the method follows (247-257)
A_SuccessAppend(th) ==
    \/ /\ threads[th].pc = "idle"
       /\ Reported
       /\ \E k \in Configured :
            /\ usage_stats' = [usage_stats EXCEPT
                   ![k].requests_this_minute = Append(@, now)]
            /\ threads' = [threads EXCEPT ![th] =
                   [Idle EXCEPT !.pc = "minute", !.op = "success", !.key = k, !.t = now]]
       /\ UNCHANGED <<lock, torn, now, ticks, api_keys, last, ghost, varsK, varsM,
                      disabled_keys, failure_counts, last_used, last_rate_limit,
                      status_file>>
    \/ /\ threads[th].pc = "minute"
       /\ usage_stats' = [usage_stats EXCEPT
              ![threads[th].key].requests_this_hour = Append(@, threads[th].t)]
       /\ threads' = [threads EXCEPT ![th].pc = "hour"]
       /\ UNCHANGED <<lock, torn, now, ticks, calls, api_keys, last, ghost, varsK,
                      varsM, disabled_keys, failure_counts, last_used,
                      last_rate_limit, status_file>>
    \/ /\ threads[th].pc = "hour"
       /\ LET k == threads[th].key
              t == threads[th].t
              S1 == [AState EXCEPT !.usage_stats[k] =
                        [@ EXCEPT !.requests_this_day = Append(@, t),
                                  !.total_requests = @ + 1],
                     !.last_used[k] = Some(t)]
          IN  /\ A_Set(persist_status([persist_status(S1) EXCEPT !.failure_counts[k] = 0]))
              /\ Called("success", k, NoKey, <<>>)
       /\ threads' = [threads EXCEPT ![th] = Idle]
       /\ UNCHANGED <<lock, torn, now, ticks, calls, api_keys, varsK, varsM>>

\* get_keys_status, whose first statement on the first key (_clean_old_usage_data,
\* lines 104-107) builds the pruned minute list and then stores it; the rest
\* of the call follows the store
A_Clean(th) ==
    \/ /\ threads[th].pc = "idle"
       /\ threads' = [threads EXCEPT ![th] =
              [Idle EXCEPT !.pc = "pruned", !.op = "status", !.t = now,
                           !.key = api_keys[1].api_key,
                           !.doc = A_kept(usage_stats[api_keys[1].api_key]
                                              .requests_this_minute, now, MINUTE)]]
       /\ UNCHANGED <<lock, torn, now, ticks, calls, api_keys, last, ghost, varsA,
                      varsK, varsM>>
    \/ /\ threads[th].pc = "pruned"
       /\ LET S1 == [AState EXCEPT
                        !.usage_stats[threads[th].key].requests_this_minute =
                            threads[th].doc]
              r == get_keys_status(S1, 1, [k \in Configured |-> FALSE], now)
          IN  /\ A_Set(r.S)
              /\ Called("status", NoKey, NoKey, r.avail)
       /\ threads' = [threads EXCEPT ![th] = Idle]
       /\ UNCHANGED <<lock, torn, now, ticks, calls, api_keys, varsK, varsM>>

NextAS ==
    \/ \E th \in Threads : A_SuccessAppend(th)
    \/ \E th \in Threads : A_Clean(th)
    \/ A_Tick

SpecAS == InitA2 /\ [][NextAS]_vars

\* ---- a task: main's retry loop around a Manus agent -------------------------
\* The task runs on thread 1.  upstream lists the upstream calls made, each with
\* the key it was made with and how it ended; outcomes lists the reports made
\* to the manager, each with the number of the upstream call it reports.
MaxThinks == 3      \* calls of Manus.think per behaviour, within main
MaxThinks1 == 2     \* calls of Manus.think per behaviour, an agent by itself

Errors == {"rate_limited", "failure"}

\* the upstream call of Manus.think raises nothing, a rate-limit error, or
\* another error (authentication, connection, unexpected)
Upstream == {"success"} \cup Errors

Task == threads[1]
TaskIs(c) == threads' = [threads EXCEPT ![1] = c]

\* the report of outcome o on key k, as the manager applies it
report(S, o, k, t) ==
    CASE o = "success" -> record_successful_request(S, k, t)
      [] o = "rate_limited" -> A_record_rate_limit_error(S, k, t)
      [] OTHER -> A_record_failure(S, k, t)

\* the report is made and noted against the latest upstream call
Recorded(c, o, k) ==
    [c EXCEPT !.outcomes = Append(@, [key |-> k, outcome |-> o,
                                        attempt |-> Len(c.upstream)])]

\* main: while retry_count < max_retries, get_available_api_key; when the
\* condition is false the loop is left and main returns
T_MainSelect ==
    /\ Task.pc = "idle"
    /\ IF Task.retry_count < Len(api_keys)
       THEN \E r \in get_available_api_key(AState, TRUE, now) :
              /\ Called("select_random", NoKey, r, <<>>)
              /\ TaskIs(IF r # NoKey
                        THEN [Task EXCEPT !.pc = "create", !.api_key = r]
                        ELSE [Task EXCEPT !.pc = "wait", !.start_time = now,
                                          !.wait_time = 5])
       ELSE /\ TaskIs([Task EXCEPT !.pc = "returned"])
            /\ UNCHANGED <<last, ghost>>
    /\ UNCHANGED <<lock, torn, now, ticks, calls, api_keys, varsA, varsK, varsM>>

\* main: the wait for a key, max_wait_time = 10, and the exception after it
T_MainWait ==
    /\ Task.pc = "wait"
    /\ IF now - Task.start_time < 10
       THEN /\ now' = now + Task.wait_time
            /\ \E r \in get_available_api_key(AState, TRUE, now') :
                 /\ last' = [op |-> "select_random", key |-> NoKey, ret |-> r,
                             avail |-> <<>>]
                 /\ TaskIs(IF r # NoKey
                           THEN [Task EXCEPT !.pc = "create", !.api_key = r]
                           ELSE [Task EXCEPT !.wait_time = Min2(@ * 2, 60)])
       ELSE /\ TaskIs([Task EXCEPT !.pc = "raised"])
            /\ UNCHANGED <<now, last>>
    /\ UNCHANGED <<lock, torn, ticks, calls, api_keys, ghost, varsA, varsK, varsM>>

\* Manus.create: the agent takes a key of its own from the manager; tried
\* lists the keys main began a task attempt with
T_Create ==
    /\ Task.pc = "create"
    /\ \E r \in get_available_api_key(AState, TRUE, now) :
         /\ Called("select_random", NoKey, r, <<>>)
         /\ TaskIs([Task EXCEPT !.pc = "run", !.current_key_config = r, !.pos = 0,
                                !.tried = Append(@, Task.api_key)])
    /\ UNCHANGED <<lock, torn, now, ticks, calls, api_keys, varsA, varsK, varsM>>

\* Manus.think, max_retries: 3 with a key manager and 1 without (create sets
\* api_key_manager and current_key_config together)
max_retries(c) == IF c.current_key_config # NoKey THEN 3 ELSE 1

\* Manus.think up to the loop: the prompt is saved, and replaced while the
\* browser is in use
enter_think(c, browser_in_use) ==
    [c EXCEPT !.pc = "think", !.attempt = 0, !.thinks = @ + 1, !.pos = @ + 1,
              !.original_prompt = c.next_step_prompt,
              !.next_step_prompt = IF browser_in_use THEN "browser" ELSE @]

\* an exit that leaves the prompt of the browser in place
keep_prompt(c) == c

\* self.next_step_prompt = original_prompt
restore_prompt(c) == [c EXCEPT !.next_step_prompt = c.original_prompt]

\* if attempt == max_retries - 1: ... raise e
raises_at(c) == c.attempt = max_retries(c) - 1

\* for attempt in range(max_retries): the next attempt, or the end of the loop
\* and the statements after it (restore the prompt, return False)
next_iteration(c) ==
    IF c.attempt + 1 < max_retries(c)
    THEN [c EXCEPT !.pc = "think", !.attempt = @ + 1]
    ELSE [restore_prompt(c) EXCEPT !.pc = "returned_false"]

ThinkBudget == IF Task.tried = <<>> THEN MaxThinks1 ELSE MaxThinks

\* agent.run: one more step of the agent (pos counts the steps of this run)
T_Step ==
    /\ Task.pc = "run"
    /\ Task.thinks < ThinkBudget
    /\ \E browser_in_use \in BOOLEAN : TaskIs(enter_think(Task, browser_in_use))
    /\ UNCHANGED <<lock, torn, now, ticks, calls, api_keys, last, ghost,
                   varsA, varsK, varsM>>

\* agent.run: the end of the run after at least one step
T_Finish ==
    /\ Task.pc = "run"
    /\ Task.pos >= 1
    /\ TaskIs([Task EXCEPT !.pc = "finished"])
    /\ UNCHANGED <<lock, torn, now, ticks, calls, api_keys, last, ghost,
                   varsA, varsK, varsM>>

\* Manus.think: one attempt of the loop, the upstream call and its report; a
\* success restores the prompt and returns the result
T_Attempt ==
    /\ Task.pc = "think"
    /\ \E o \in Upstream :
         LET k == IF Task.current_key_config # NoKey
                  THEN Task.current_key_config ELSE Task.api_key
             c == [Task EXCEPT !.upstream = Append(@, [key |-> k, outcome |-> o,
                                                        think |-> Task.thinks]),
                               !.op = o]
         IN  IF Task.current_key_config # NoKey
             THEN /\ A_Set(report(AState, o, k, now))
                  /\ Called(o, k, NoKey, <<>>)
                  /\ TaskIs(IF o = "success"
                            THEN [restore_prompt(Recorded(c, o, k)) EXCEPT !.pc = "run"]
                            ELSE [Recorded(c, o, k) EXCEPT !.pc =
                                    IF Task.attempt < max_retries(Task) - 1
                                    THEN "rotate" ELSE "last"])
             ELSE /\ TaskIs(IF o = "success"
                            THEN [restore_prompt(c) EXCEPT !.pc = "run"]
                            ELSE [c EXCEPT !.pc = "last"])
                  /\ UNCHANGED <<varsA, last, ghost>>
    /\ UNCHANGED <<lock, torn, now, ticks, calls, api_keys, varsK, varsM>>

\* Manus.think: after an error, a different key is taken if there is one and
\* the loop continues after a second; otherwise the handler goes on
T_Rotate ==
    /\ Task.pc = "rotate"
    /\ \E r \in get_available_api_key(AState, TRUE, now) :
         /\ Called("select_random", NoKey, r, <<>>)
         /\ IF r # NoKey /\ r # Task.current_key_config
            THEN /\ TaskIs(next_iteration([Task EXCEPT !.current_key_config = r]))
                 /\ now' = now + 1
            ELSE /\ TaskIs([Task EXCEPT !.pc = "last"])
                 /\ now' = now
    /\ UNCHANGED <<lock, torn, ticks, calls, api_keys, varsA, varsK, varsM>>

\* Manus.think: the end of the handler: on the last attempt get_keys_status,
\* the prompt is restored and the error raised; otherwise the loop goes on
T_LastAttempt ==
    /\ Task.pc = "last"
    /\ IF raises_at(Task)
       THEN /\ IF Task.current_key_config # NoKey
               THEN LET r == get_keys_status(AState, 1, [k \in Configured |-> FALSE], now)
                    IN  /\ A_Set(r.S)
                        /\ Called("status", NoKey, NoKey, r.avail)
               ELSE UNCHANGED <<varsA, last, ghost>>
            /\ TaskIs([restore_prompt(Task) EXCEPT !.pc = "except"])
       ELSE /\ TaskIs(next_iteration(Task))
            /\ UNCHANGED <<varsA, last, ghost>>
    /\ UNCHANGED <<lock, torn, now, ticks, calls, api_keys, varsK, varsM>>

\* main: except Exception, the error is reported on main's key
T_MainExcept ==
    /\ Task.pc = "except"
    /\ A_Set(report(AState, Task.op, Task.api_key, now))
    /\ Called(Task.op, Task.api_key, NoKey, <<>>)
    /\ TaskIs([Recorded(Task, Task.op, Task.api_key) EXCEPT
                  !.retry_count = @ + 1,
                  !.pc = IF Task.retry_count + 1 >= Len(api_keys)
                         THEN "failed" ELSE "idle"])
    /\ UNCHANGED <<lock, torn, now, ticks, calls, api_keys, varsK, varsM>>

\* main: the run returned, record_successful_request(api_key) and break
T_MainSuccess ==
    /\ Task.pc = "finished"
    /\ A_Set(report(AState, "success", Task.api_key, now))
    /\ Called("success", Task.api_key, NoKey, <<>>)
    /\ TaskIs([Recorded(Task, "success", Task.api_key) EXCEPT !.pc = "done"])
    /\ UNCHANGED <<lock, torn, now, ticks, calls, api_keys, varsK, varsM>>

NextAT ==
    \/ T_MainSelect
    \/ T_MainWait
    \/ T_Create
    \/ T_Step
    \/ T_Finish
    \/ T_Attempt
    \/ T_Rotate
    \/ T_LastAttempt
    \/ T_MainExcept
    \/ T_MainSuccess

\* two configured keys, or none
InitAT == InitAOf(Configs2 \cup {<<>>}, {<<>>})

SpecAT == InitAT /\ [][NextAT]_vars

\* ---- Manus.think of one agent, made with or without a key manager -----------
\* Manus.create(api_key_manager=None): no key is taken from a manager
T_CreateAlone ==
    /\ Task.pc = "idle"
    /\ TaskIs([Task EXCEPT !.pc = "run", !.pos = 0])
    /\ UNCHANGED <<lock, torn, now, ticks, calls, api_keys, last, ghost,
                   varsA, varsK, varsM>>

\* Manus.create(api_key_manager=manager), called by itself
T_CreateManaged ==
    /\ Task.pc = "idle"
    /\ \E r \in get_available_api_key(AState, TRUE, now) :
         /\ Called("select_random", NoKey, r, <<>>)
         /\ TaskIs([Task EXCEPT !.pc = "run", !.current_key_config = r, !.pos = 0])
    /\ UNCHANGED <<lock, torn, now, ticks, calls, api_keys, varsA, varsK, varsM>>

NextTh ==
    \/ T_CreateAlone
    \/ T_CreateManaged
    \/ T_Step
    \/ T_Attempt
    \/ T_Rotate
    \/ T_LastAttempt

SpecTh == InitA2 /\ [][NextTh]_vars

\* the upstream call returns or raises, and the coroutine of think is resumed
SpecThFair ==
    SpecTh /\ WF_vars(T_Attempt) /\ WF_vars(T_Rotate) /\ WF_vars(T_LastAttempt)


(***************************************************************************)
(* src/app/api_key_manager.py: APIKeyManager                               *)
(***************************************************************************)
KeyUsageTracker ==
    [requests_this_minute |-> <<>>, requests_this_hour |-> <<>>,
     requests_this_day |-> <<>>, last_used |-> None, consecutive_failures |-> 0,
     last_failure_time |-> None, is_rate_limited |-> FALSE,
     rate_limit_reset_time |-> None]

KState == [trackers |-> usage_trackers, last_cleanup |-> last_cleanup]

\* self._usage_trackers.get(api_key, KeyUsageTracker())
K_tracker(T, k) == IF k \in DOMAIN T THEN T[k] ELSE KeyUsageTracker

\* self._usage_trackers[api_key] = tr
K_put(T, k, tr) == [x \in DOMAIN T \cup {k} |-> IF x = k THEN tr ELSE T[x]]

\* _clean_usage_queue: popleft while the oldest entry is before the cutoff
RECURSIVE clean_usage_queue(_, _, _)
clean_usage_queue(q, t, w) ==
    IF q # <<>> /\ Head(q) < t - w THEN clean_usage_queue(Tail(q), t, w) ELSE q

K_clean_tracker(tr, t) ==
    [tr EXCEPT !.requests_this_minute = clean_usage_queue(@, t, MINUTE),
               !.requests_this_hour = clean_usage_queue(@, t, HOUR),
               !.requests_this_day = clean_usage_queue(@, t, DAY)]

\* midnight of the day after t: (t + 1 day).replace(hour=0, minute=0, second=0)
NextMidnight(t) == ((t + DAY) \div DAY) * DAY

\* _is_key_within_limits: the tracker it leaves and the value it returns
is_key_within_limits(kc, tr, t) ==
    LET blocked == /\ tr.is_rate_limited
                   /\ ~(Truthy(tr.rate_limit_reset_time) /\ t >= Val(tr.rate_limit_reset_time))
        tr1 == IF tr.is_rate_limited
               THEN [tr EXCEPT !.is_rate_limited = FALSE, !.rate_limit_reset_time = None]
               ELSE tr
        tr2 == K_clean_tracker(tr1, t)
    IN  IF blocked THEN [tr |-> tr, ret |-> FALSE]
        ELSE IF Len(tr2.requests_this_minute) >= kc.max_requests_per_minute
          THEN [tr |-> tr2, ret |-> FALSE]
        ELSE IF Len(tr2.requests_this_hour) >= kc.max_requests_per_hour
          THEN [tr |-> tr2, ret |-> FALSE]
        ELSE IF Len(tr2.requests_this_day) >= kc.max_requests_per_day
          THEN [tr |-> [tr2 EXCEPT !.is_rate_limited = TRUE,
                                   !.rate_limit_reset_time = Some(NextMidnight(t))],
                ret |-> FALSE]
        ELSE [tr |-> tr2, ret |-> TRUE]

\* a backoff that never runs out
is_key_temporarily_disabled_for_good(tr, t) ==
    [tr |-> tr, ret |-> tr.consecutive_failures >= 3 /\ Truthy(tr.last_failure_time)]

\* _is_key_temporarily_disabled: the tracker it leaves and the value it returns
is_key_temporarily_disabled(tr, t) ==
    IF tr.consecutive_failures >= 3 /\ Truthy(tr.last_failure_time)
    THEN LET backoff_minutes == Min2(5 * Pow2(tr.consecutive_failures - 3), 240)
         IN  IF t - Val(tr.last_failure_time) > backoff_minutes * 60
             THEN [tr |-> [tr EXCEPT !.consecutive_failures = 0], ret |-> FALSE]
             ELSE [tr |-> tr, ret |-> TRUE]
    ELSE [tr |-> tr, ret |-> FALSE]

\* _cleanup_old_usage_data: every 300 seconds all trackers are pruned
cleanup_old_usage_data(KS, t) ==
    IF t - KS.last_cleanup < 300 THEN KS
    ELSE [trackers |-> [k \in DOMAIN KS.trackers |-> K_clean_tracker(KS.trackers[k], t)],
          last_cleanup |-> t]

\* the weight _weighted_random_selection gives a key before the floor, as the
\* exact fraction <<num, den>> (den > 0) of the float the code computes
K_raw_weight(T, kc, t) ==
    LET tr == K_tracker(T, kc.api_key)
        mu == Len(tr.requests_this_minute)
        hu == Len(tr.requests_this_hour)
        du == Len(tr.requests_this_day)
        ml == kc.max_requests_per_minute
        hl == kc.max_requests_per_hour
        dl == kc.max_requests_per_day
        usenum == 3 * (hu + 1) * (du + 1) + 2 * (mu + 1) * (du + 1) + (mu + 1) * (hu + 1)
        useden == 6 * (mu + 1) * (hu + 1) * (du + 1)
        tnum == IF Truthy(tr.last_used)
                THEN Min2(HOUR + (t - Val(tr.last_used)), 2 * HOUR)
                ELSE HOUR
        capnum == 3 * ml * hl * dl - mu * hl * dl - hu * ml * dl - du * ml * hl
        capden == 3 * ml * hl * dl
    IN  << 10 * usenum * tnum * capnum,
           Max2(kc.priority, 1) * useden * (tr.consecutive_failures + 1) * HOUR * capden >>

K_weight(T, kc, t) ==
    LET r == K_raw_weight(T, kc, t)
    IN  IF RatLess(r[1], r[2], 1, 10) THEN <<1, 10>> ELSE r

\* _weighted_random_selection: the positions random.choices can draw (those
\* of positive weight)
weighted_random_selection(T, av, t) ==
    { j \in av : LET w == K_weight(T, api_keys[j], t) IN RatLess(0, 1, w[1], w[2]) }

\* sort_key of _priority_based_selection, compared lexicographically
K_sort_less(T, a, b) ==
    LET ta == K_tracker(T, a.api_key)
        tb == K_tracker(T, b.api_key)
        ha == 100 - ta.consecutive_failures * 10 - Len(ta.requests_this_minute) * 2
        hb == 100 - tb.consecutive_failures * 10 - Len(tb.requests_this_minute) * 2
        ka == << a.priority, 0 - ha, Len(ta.requests_this_minute),
                 ta.consecutive_failures, a.api_key >>
        kb == << b.priority, 0 - hb, Len(tb.requests_this_minute),
                 tb.consecutive_failures, b.api_key >>
    IN  \E i \in 1..5 : ka[i] < kb[i] /\ \A j \in 1..(i - 1) : ka[j] = kb[j]

\* _priority_based_selection: the first position after the sort
priority_based_selection(T, av) ==
    { j \in av : \A o \in av \ {j} : K_sort_less(T, api_keys[j], api_keys[o]) }

\* the categorising loop of get_available_key / force_key_rotation from
\* position i on: the trackers it leaves, the available positions and the
\* reset times collected for the rate-limited keys
RECURSIVE K_scan(_, _, _, _, _)
K_scan(T, i, exclude_key, t, acc) ==
    IF i > Len(api_keys) THEN [trackers |-> T, acc |-> acc]
    ELSE LET kc == api_keys[i]
             k == kc.api_key
         IN  IF ~kc.enabled \/ (exclude_key # NoKey /\ k = exclude_key)
             THEN K_scan(T, i + 1, exclude_key, t, acc)
             ELSE LET d == is_key_temporarily_disabled(K_tracker(T, k), t)
                      w == is_key_within_limits(kc, d.tr, t)
                  IN  IF d.ret
                      THEN K_scan(K_put(T, k, d.tr), i + 1, exclude_key, t, acc)
                      ELSE K_scan(K_put(T, k, w.tr), i + 1, exclude_key, t,
                             IF w.ret
                             THEN [acc EXCEPT !.available = @ \cup {i}]
                             ELSE [acc EXCEPT !.rate_limited =
                                       Append(@, w.tr.rate_limit_reset_time)])

NoScan == [available |-> {}, rate_limited |-> <<>>]

\* get_available_key: the state it leaves and the values it can return
\* (NoKey for None, Raised when min() of an empty list raises ValueError)
get_available_key(KS, use_random_selection, exclude_key, t) ==
    LET KS1 == cleanup_old_usage_data(KS, t)
        sc == K_scan(KS1.trackers, 1, exclude_key, t, NoScan)
        KS2 == [KS1 EXCEPT !.trackers = sc.trackers]
        av == sc.acc.available
        resets == { i \in DOMAIN sc.acc.rate_limited : Truthy(sc.acc.rate_limited[i]) }
    IN  [KS |-> KS2,
         rets |-> IF av = {}
                  THEN IF sc.acc.rate_limited # <<>> /\ resets = {}
                       THEN {Raised} ELSE {NoKey}
                  ELSE { api_keys[j].api_key : j \in
                           IF use_random_selection /\ Cardinality(av) > 1
                           THEN weighted_random_selection(KS2.trackers, av, t)
                           ELSE priority_based_selection(KS2.trackers, av) }]

\* force_key_rotation: random.choice among the other available keys
force_key_rotation(KS, current_api_key, t) ==
    LET sc == K_scan(KS.trackers, 1, current_api_key, t, NoScan)
    IN  [KS |-> [KS EXCEPT !.trackers = sc.trackers],
         rets |-> IF sc.acc.available = {} THEN {NoKey}
                  ELSE { api_keys[j].api_key : j \in sc.acc.available }]

K_record_request(KS, k, t) ==
    [KS EXCEPT !.trackers = K_put(@, k,
        [K_tracker(@, k) EXCEPT !.requests_this_minute = Append(@, t),
                                !.requests_this_hour = Append(@, t),
                                !.requests_this_day = Append(@, t),
                                !.last_used = Some(t),
                                !.consecutive_failures = 0,
                                !.is_rate_limited = FALSE,
                                !.rate_limit_reset_time = None])]

\* record_rate_limit_error: reset_time or datetime.now() + timedelta(minutes=1)
K_record_rate_limit_error(KS, k, reset_time, t) ==
    [KS EXCEPT !.trackers = K_put(@, k,
        [K_tracker(@, k) EXCEPT !.is_rate_limited = TRUE,
                                !.rate_limit_reset_time =
                                    IF Truthy(reset_time) THEN reset_time
                                    ELSE Some(t + 1 * 60)])]

\* a record_failure that stamps last_used as record_request does
K_record_failure_stamping(KS, k, t) ==
    [KS EXCEPT !.trackers = K_put(@, k,
        [K_tracker(@, k) EXCEPT !.consecutive_failures = @ + 1,
                                !.last_failure_time = Some(t),
                                !.last_used = Some(t)])]

K_record_failure(KS, k, t) ==
    [KS EXCEPT !.trackers = K_put(@, k,
        [K_tracker(@, k) EXCEPT !.consecutive_failures = @ + 1,
                                !.last_failure_time = Some(t)])]

\* get_usage_stats prunes the three queues of a registered key
get_usage_stats(KS, k, t) ==
    IF k \notin DOMAIN KS.trackers THEN KS
    ELSE [KS EXCEPT !.trackers[k] = K_clean_tracker(@, t)]

\* get_all_keys_status: the loop over the configured keys from position i on;
\* acc collects the can_make_request flag reported for each key
RECURSIVE K_get_all_keys_status(_, _, _, _)
K_get_all_keys_status(KS, i, acc, t) ==
    IF i > Len(api_keys) THEN [KS |-> KS, avail |-> acc]
    ELSE LET kc == api_keys[i]
             k == kc.api_key
             KS1 == get_usage_stats(KS, k, t)
         IN  IF k \in DOMAIN KS1.trackers
             THEN LET w == is_key_within_limits(kc, KS1.trackers[k], t)
                  IN  K_get_all_keys_status([KS1 EXCEPT !.trackers[k] = w.tr], i + 1,
                                            [acc EXCEPT ![k] = w.ret], t)
             ELSE K_get_all_keys_status(KS1, i + 1, [acc EXCEPT ![k] = TRUE], t)

K_Set(KS) ==
    /\ usage_trackers' = KS.trackers
    /\ last_cleanup' = KS.last_cleanup

K_GetAvailableKeyOf(Excluded) ==
    /\ \E use_random_selection \in BOOLEAN, exclude_key \in Excluded :
         LET r == get_available_key(KState, use_random_selection, exclude_key, now)
         IN  /\ K_Set(r.KS)
             /\ \E v \in r.rets :
                  Called(IF use_random_selection THEN "select_random" ELSE "select_priority",
                         exclude_key, v, <<>>)
    /\ UNCHANGED <<varsT, now, ticks, calls, api_keys, varsA, varsM>>

K_GetAvailableKey == K_GetAvailableKeyOf({NoKey})
K_GetAvailableKeyExcluding == K_GetAvailableKeyOf(Configured)

K_ForceKeyRotation ==
    /\ \E current_api_key \in Configured :
         LET r == force_key_rotation(KState, current_api_key, now)
         IN  /\ K_Set(r.KS)
             /\ \E v \in r.rets : Called("force_rotation", current_api_key, v, <<>>)
    /\ UNCHANGED <<varsT, now, ticks, calls, api_keys, varsA, varsM>>

K_RecordRequest ==
    /\ Reported
    /\ \E k \in Configured :
         /\ K_Set(K_record_request(KState, k, now))
         /\ Called("success", k, NoKey, <<>>)
    /\ UNCHANGED <<varsT, now, ticks, api_keys, varsA, varsM>>

\* the reset times a caller passes: none, or an explicit one two hours ahead
K_RecordRateLimitError ==
    /\ Reported
    /\ \E k \in Configured, reset_time \in {None, Some(now + 2 * HOUR)} :
         /\ K_Set(K_record_rate_limit_error(KState, k, reset_time, now))
         /\ Called(IF reset_time = None THEN "rate_limited" ELSE "rate_limited_until",
                   k, NoKey, <<>>)
    /\ UNCHANGED <<varsT, now, ticks, api_keys, varsA, varsM>>

K_RecordFailure ==
    /\ Reported
    /\ \E k \in Configured :
         /\ K_Set(K_record_failure(KState, k, now))
         /\ Called("failure", k, NoKey, <<>>)
    /\ UNCHANGED <<varsT, now, ticks, api_keys, varsA, varsM>>

K_GetAllKeysStatus ==
    /\ LET r == K_get_all_keys_status(KState, 1, [k \in Configured |-> FALSE], now)
       IN  /\ K_Set(r.KS)
           /\ Called("status", NoKey, NoKey, r.avail)
    /\ UNCHANGED <<varsT, now, ticks, calls, api_keys, varsA, varsM>>

K_Deltas == {1, MINUTE, 5 * MINUTE, DAY}
K_Tick == TickBy(K_Deltas)

\* APIKeyManager.__init__: no trackers; _last_cleanup is the construction time
InitKOf(Configs) ==
    /\ InitCommon(Configs)
    /\ usage_trackers = <<>>
    /\ last_cleanup = now
    /\ usage_stats = <<>>
    /\ disabled_keys = <<>>
    /\ failure_counts = <<>>
    /\ last_used = <<>>
    /\ last_rate_limit = <<>>
    /\ status_file = <<>>
    /\ key_configs = <<>>
    /\ key_rotation_stats = <<>>

InitK == InitKOf(Configs1)
InitK2 == InitKOf(Configs2)

NextK ==
    \/ K_GetAvailableKey
    \/ K_RecordRequest
    \/ K_RecordRateLimitError
    \/ K_RecordFailure
    \/ K_GetAllKeysStatus
    \/ K_Tick

\* with forced rotation: selection that excludes the current key
NextKR ==
    \/ NextK
    \/ K_GetAvailableKeyExcluding
    \/ K_ForceKeyRotation

\* record_request, record_rate_limit_error and record_failure for an api_key
\* that was never registered: a KeyUsageTracker is created for it
K_ReportUnknown ==
    /\ Reported
    /\ \E o \in {"success", "rate_limited", "failure"}, k \in UnknownIds :
         /\ K_Set(CASE o = "success" -> K_record_request(KState, k, now)
                    [] o = "rate_limited" -> K_record_rate_limit_error(KState, k, None, now)
                    [] OTHER -> K_record_failure(KState, k, now))
         /\ last' = [op |-> o, key |-> k, ret |-> NoKey, avail |-> <<>>]
    /\ UNCHANGED <<varsT, now, ticks, api_keys, ghost, varsA, varsM>>

NextKU ==
    \/ NextK
    \/ K_ReportUnknown

SpecKU == InitK2 /\ [][NextKU]_vars

InitKD == InitKOf(ConfigsD)
SpecKD == InitKD /\ [][NextKR]_vars
SpecK == InitK /\ [][NextK]_vars
SpecK2 == InitK2 /\ [][NextK]_vars

\* ---- callers that select a key and record the request later ------------------
\* a caller takes a key from get_available_key and makes its upstream call
K_CallerSelects(th) ==
    /\ threads[th].pc = "idle"
    /\ LET r == get_available_key(KState, TRUE, NoKey, now)
       IN  /\ K_Set(r.KS)
           /\ \E v \in r.rets :
                /\ Called("select_random", NoKey, v, <<>>)
                /\ threads' = [threads EXCEPT ![th] =
                      IF v \in Configured
                      THEN [Idle EXCEPT !.pc = "call", !.key = v] ELSE Idle]
    /\ UNCHANGED <<lock, torn, now, ticks, calls, api_keys, varsA, varsM>>

\* the upstream call succeeded: record_request on the key it was made with
K_CallerRecords(th) ==
    /\ threads[th].pc = "call"
    /\ Reported
    /\ K_Set(K_record_request(KState, threads[th].key, now))
    /\ Called("success", threads[th].key, NoKey, <<>>)
    /\ threads' = [threads EXCEPT ![th] = Idle]
    /\ UNCHANGED <<lock, torn, now, ticks, api_keys, varsA, varsM>>

NextKC ==
    \/ \E th \in Threads : K_CallerSelects(th)
    \/ \E th \in Threads : K_CallerRecords(th)
    \/ K_Tick

SpecKC == InitK2 /\ [][NextKC]_vars
SpecKR == InitK2 /\ [][NextKR]_vars


(***************************************************************************)
(* src/app/api_manager.py: APIKeyConfig and APIKeyManager                  *)
(***************************************************************************)
\* the mutable fields of an APIKeyConfig
APIKeyConfig ==
    [cooldown_until |-> None, minute_requests |-> <<>>, hour_requests |-> <<>>,
     day_requests |-> <<>>]

\* the entries of list s that are kept by `if t > current_time - w`
M_kept(s, t, w) ==
    LET Keep(x) == x > t - w IN SelectSeq(s, Keep)

clean_old_requests(c, t) ==
    [c EXCEPT !.minute_requests = M_kept(@, t, 60),
              !.hour_requests = M_kept(@, t, 3600),
              !.day_requests = M_kept(@, t, 86400)]

\* APIKeyConfig.can_make_request: the fields it leaves and the value it returns
can_make_request(kc, c, t) ==
    IF ~kc.enabled THEN [c |-> c, ret |-> FALSE]
    ELSE IF Truthy(c.cooldown_until) /\ t < Val(c.cooldown_until)
      THEN [c |-> c, ret |-> FALSE]
    ELSE LET c1 == clean_old_requests(c, t)
         IN  [c |-> c1,
              ret |-> /\ Len(c1.minute_requests) < kc.max_requests_per_minute
                      /\ Len(c1.hour_requests) < kc.max_requests_per_hour
                      /\ Len(c1.day_requests) < kc.max_requests_per_day]

\* APIKeyConfig.record_request
M_record_request(c, t) ==
    clean_old_requests([c EXCEPT !.minute_requests = Append(@, t),
                                 !.hour_requests = Append(@, t),
                                 !.day_requests = Append(@, t)], t)

set_cooldown(c, duration_seconds, t) ==
    [c EXCEPT !.cooldown_until = Some(t + duration_seconds)]

SeqMin(q) == CHOOSE x \in { q[i] : i \in DOMAIN q } : \A i \in DOMAIN q : x <= q[i]
SetMin(S) == CHOOSE x \in S : \A y \in S : x <= y

\* APIKeyConfig.get_next_available_time: the fields it leaves and the
\* Optional[float] it returns
get_next_available_time(kc, c, t) ==
    IF ~kc.enabled THEN [c |-> c, ret |-> None]
    ELSE IF Truthy(c.cooldown_until) /\ t < Val(c.cooldown_until)
      THEN [c |-> c, ret |-> c.cooldown_until]
    ELSE LET c1 == clean_old_requests(c, t)
             next_times ==
                (IF Len(c1.minute_requests) >= kc.max_requests_per_minute
                 THEN {SeqMin(c1.minute_requests) + 60} ELSE {})
                \cup
                (IF Len(c1.hour_requests) >= kc.max_requests_per_hour
                 THEN {SeqMin(c1.hour_requests) + 3600} ELSE {})
                \cup
                (IF Len(c1.day_requests) >= kc.max_requests_per_day
                 THEN {SeqMin(c1.day_requests) + 86400} ELSE {})
         IN  [c |-> c1,
              ret |-> IF next_times # {} THEN Some(SetMin(next_times)) ELSE Some(t)]

\* APIKeyManager.get_available_key: every key is asked can_make_request (which
\* prunes it); random.choice draws among those that said yes
M_get_available_key(C, t) ==
    LET r == [k \in DOMAIN C |-> can_make_request(ConfigOf(k), C[k], t)]
        available_keys == { k \in DOMAIN C : r[k].ret }
    IN  [C |-> [k \in DOMAIN C |-> r[k].c],
         rets |-> IF available_keys = {} THEN {NoKey} ELSE available_keys]

\* APIKeyManager.get_next_available_time
M_get_next_available_time(C, t) ==
    LET r == [k \in DOMAIN C |-> get_next_available_time(ConfigOf(k), C[k], t)]
        next_times == { Val(r[k].ret) : k \in { x \in DOMAIN C : r[x].ret # None } }
    IN  [C |-> [k \in DOMAIN C |-> r[k].c],
         ret |-> IF next_times # {} THEN Some(SetMin(next_times)) ELSE None]

M_Set(C) == key_configs' = C

M_GetAvailableKey ==
    /\ LET r == M_get_available_key(key_configs, now)
       IN  /\ M_Set(r.C)
           /\ \E v \in r.rets : Called("select_random", NoKey, v, <<>>)
    /\ UNCHANGED <<varsT, now, ticks, calls, api_keys, key_rotation_stats, varsA, varsK>>

\* APIKeyManager.record_request
M_RecordRequest ==
    /\ Reported
    /\ \E k \in Configured :
         /\ M_Set([key_configs EXCEPT ![k] = M_record_request(@, now)])
         /\ Called("success", k, NoKey, <<>>)
    /\ UNCHANGED <<varsT, now, ticks, api_keys, key_rotation_stats, varsA, varsK>>

\* APIKeyManager.handle_rate_limit_error: a 24-hour cooldown
M_HandleRateLimitError ==
    /\ Reported
    /\ \E k \in Configured :
         /\ M_Set([key_configs EXCEPT ![k] = set_cooldown(@, 86400, now)])
         /\ key_rotation_stats' = [key_rotation_stats EXCEPT ![k] = @ + 1]
         /\ Called("rate_limited", k, NoKey, <<>>)
    /\ UNCHANGED <<varsT, now, ticks, api_keys, varsA, varsK>>

\* APIKeyManager.get_all_keys_status: can_make_request, get_rate_limit_status
\* and get_next_available_time of every key (each prunes the key's lists)
M_GetAllKeysStatus ==
    /\ LET r == [k \in DOMAIN key_configs |->
                    can_make_request(ConfigOf(k), key_configs[k], now)]
       IN  /\ M_Set([k \in DOMAIN key_configs |-> clean_old_requests(r[k].c, now)])
           /\ Called("status", NoKey, NoKey, [k \in DOMAIN key_configs |-> r[k].ret])
    /\ UNCHANGED <<varsT, now, ticks, calls, api_keys, key_rotation_stats, varsA, varsK>>

M_GetNextAvailableTime ==
    /\ LET r == M_get_next_available_time(key_configs, now)
       IN  /\ M_Set(r.C)
           /\ Called("next_available_time", NoKey, NoKey, r.ret)
    /\ UNCHANGED <<varsT, now, ticks, calls, api_keys, key_rotation_stats, varsA, varsK>>

M_Deltas == {1, 59, HOUR, DAY}
M_Tick == TickBy(M_Deltas)

\* create_api_key_manager_from_config: fresh APIKeyConfig objects
InitMOf(Configs) ==
    /\ InitCommon(Configs)
    /\ key_configs = [k \in Configured |-> APIKeyConfig]
    /\ key_rotation_stats = [k \in Configured |-> 0]
    /\ usage_stats = <<>>
    /\ disabled_keys = <<>>
    /\ failure_counts = <<>>
    /\ last_used = <<>>
    /\ last_rate_limit = <<>>
    /\ status_file = <<>>
    /\ usage_trackers = <<>>
    /\ last_cleanup = 0

InitM == InitMOf(Configs1)
InitM2 == InitMOf(Configs2)

NextM ==
    \/ M_GetAvailableKey
    \/ M_RecordRequest
    \/ M_HandleRateLimitError
    \/ M_GetAllKeysStatus
    \/ M_GetNextAvailableTime
    \/ M_Tick

\* ---- wait_for_available_key, step by step ----------------------------------
\* A waiter is a coroutine of its own event loop (one per request thread).  Its
\* steps are the test of the while condition, entering `with self._lock` of
\* get_available_key and of get_next_available_time, the body of each (which
\* leaves the lock), and the sleep.  While a waiter sleeps the clock moves to
\* the time its sleep ends.

\* one key that allows one request a minute beside a disabled one, or no
\* enabled key at all
ConfigsW ==
    { << KeyConfig(1, 1, 1, 2, 2, TRUE), KeyConfig(2, 2, 1, 2, 2, FALSE) >>,
      << KeyConfig(1, 1, 1, 2, 2, FALSE), KeyConfig(2, 2, 1, 2, 2, FALSE) >> }

\* the values of max_wait_time explored
MaxWaits == {0, 5}

\* a loop that is entered with no time left
while_condition_inclusive(c, t) == t - c.start_time <= c.max_wait_time

\* line 206: time.time() - start_time < max_wait_time
while_condition(c, t) == t - c.start_time < c.max_wait_time

\* a `with` block that is left with the lock still held
KeepLock(th) == lock' = lock

\* leaving a `with self._lock` block
Release(th) == lock' = 0

Sleeping == { th \in Threads : threads[th].pc = "sleeping" }

\* lines 204-205
W_Enter(th) ==
    /\ threads[th].pc = "idle"
    /\ \E m \in MaxWaits :
         threads' = [threads EXCEPT ![th] =
            [Idle EXCEPT !.pc = "while", !.op = "wait", !.max_wait_time = m,
                         !.start_time = now, !.wait_time = 1]]
    /\ UNCHANGED <<lock, torn, now, ticks, calls, api_keys, last, ghost, varsA, varsK, varsM>>

\* line 206, and lines 225-226 when the condition fails
W_While(th) ==
    /\ threads[th].pc = "while"
    /\ IF while_condition(threads[th], now)
       THEN /\ threads' = [threads EXCEPT ![th].pc = "lock_get"]
            /\ UNCHANGED last
       ELSE /\ threads' = [threads EXCEPT ![th].pc = "done", ![th].t = now,
                                          ![th].wait_time = 0]
            /\ last' = [op |-> "wait", key |-> NoKey, ret |-> NoKey, avail |-> <<>>]
    /\ UNCHANGED <<lock, torn, now, ticks, calls, api_keys, ghost, varsA, varsK, varsM>>

\* lines 142 and 175: `with self._lock` is entered when no thread is inside
W_Acquire(th) ==
    /\ threads[th].pc \in {"lock_get", "lock_next"}
    /\ lock = 0
    /\ lock' = th
    /\ threads' = [threads EXCEPT ![th].pc = IF @ = "lock_get" THEN "get" ELSE "next"]
    /\ UNCHANGED <<torn, now, ticks, calls, api_keys, last, ghost, varsA, varsK, varsM>>

\* lines 207-210: get_available_key (143-148), and the return of its key
W_GetAvailableKey(th) ==
    /\ threads[th].pc = "get"
    /\ lock = th
    /\ LET r == M_get_available_key(key_configs, now)
       IN  /\ M_Set(r.C)
           /\ \E v \in r.rets :
                IF v # NoKey
                THEN /\ threads' = [threads EXCEPT ![th].pc = "done", ![th].key = v,
                                                   ![th].t = now, ![th].wait_time = 0]
                     /\ last' = [op |-> "wait", key |-> NoKey, ret |-> v, avail |-> <<>>]
                ELSE /\ threads' = [threads EXCEPT ![th].pc = "lock_next"]
                     /\ UNCHANGED last
    /\ Release(th)
    /\ UNCHANGED <<torn, now, ticks, calls, api_keys, ghost, key_rotation_stats, varsA, varsK>>

\* lines 213-221: get_next_available_time (176-179), and the sleep is begun
W_GetNextAvailableTime(th) ==
    /\ threads[th].pc = "next"
    /\ lock = th
    /\ LET r == M_get_next_available_time(key_configs, now)
           c == threads[th]
           sleep_duration == Max2(1, Val(r.ret) - now)
           d == IF Truthy(r.ret) THEN Min2(sleep_duration, c.wait_time) ELSE c.wait_time
       IN  /\ M_Set(r.C)
           /\ threads' = [threads EXCEPT ![th].pc = "sleeping", ![th].slept_at = now,
                                         ![th].sleep = d, ![th].sleeps = @ + 1]
    /\ Release(th)
    /\ UNCHANGED <<torn, now, ticks, calls, api_keys, last, ghost, key_rotation_stats, varsA, varsK>>

\* line 223, when the sleep has ended
W_Wake(th) ==
    /\ threads[th].pc = "sleeping"
    /\ now >= threads[th].slept_at + threads[th].sleep
    /\ threads' = [threads EXCEPT ![th].pc = "while", ![th].slept_at = 0, ![th].sleep = 0,
                                  ![th].wait_time = Min2(@ * 2, 60)]
    /\ UNCHANGED <<lock, torn, now, ticks, calls, api_keys, last, ghost, varsA, varsK, varsM>>

\* time passes until the first of the sleeps ends
W_Sleep ==
    /\ Sleeping # {}
    /\ LET due == SetMin({ threads[th].slept_at + threads[th].sleep : th \in Sleeping })
       IN  /\ now < due
           /\ now' = due
    /\ UNCHANGED <<varsT, ticks, calls, api_keys, last, ghost, varsA, varsK, varsM>>

\* between two waits: the calls of the request threads, and the clock
NoWait == \A th \in Threads : threads[th].pc \in {"idle", "done"}
W_Calls ==
    /\ lock = 0
    /\ NoWait
    /\ \/ M_RecordRequest
       \/ M_HandleRateLimitError
W_Tick == NoWait /\ M_Tick

InitMW == InitMOf(ConfigsW)

\* one waiter
NextMW ==
    \/ W_Enter(1)
    \/ W_While(1)
    \/ W_Acquire(1)
    \/ W_GetAvailableKey(1)
    \/ W_GetNextAvailableTime(1)
    \/ W_Wake(1)
    \/ W_Sleep
    \/ W_Calls
    \/ W_Tick

SpecMW == InitMW /\ [][NextMW]_vars

\* two waiters at a time
NextMW2 ==
    \/ \E th \in Threads : W_Enter(th)
    \/ \E th \in Threads : W_While(th)
    \/ \E th \in Threads : W_Acquire(th)
    \/ \E th \in Threads : W_GetAvailableKey(th)
    \/ \E th \in Threads : W_GetNextAvailableTime(th)
    \/ \E th \in Threads : W_Wake(th)
    \/ W_Sleep
    \/ W_Calls

SpecMW2 == InitMW /\ [][NextMW2]_vars

\* record_request and handle_rate_limit_error for an api_key that no
\* APIKeyConfig holds: the loop over self.api_keys finds none and ends
M_ReportUnknown ==
    /\ Reported
    /\ \E o \in {"success", "rate_limited"}, k \in UnknownIds :
         last' = [op |-> o, key |-> k, ret |-> NoKey, avail |-> <<>>]
    /\ UNCHANGED <<varsT, now, ticks, api_keys, ghost, varsA, varsK, varsM>>

NextMU ==
    \/ NextM
    \/ M_ReportUnknown

SpecMU == InitM2 /\ [][NextMU]_vars

InitMD == InitMOf(ConfigsD)
SpecMD == InitMD /\ [][NextM]_vars
SpecM == InitM /\ [][NextM]_vars
SpecM2 == InitM2 /\ [][NextM]_vars

\* ---- callers that select a key and record the request later ------------------
M_CallerSelects(th) ==
    /\ threads[th].pc = "idle"
    /\ LET r == M_get_available_key(key_configs, now)
       IN  /\ M_Set(r.C)
           /\ \E v \in r.rets :
                /\ Called("select_random", NoKey, v, <<>>)
                /\ threads' = [threads EXCEPT ![th] =
                      IF v \in Configured
                      THEN [Idle EXCEPT !.pc = "call", !.key = v] ELSE Idle]
    /\ UNCHANGED <<lock, torn, now, ticks, calls, api_keys, key_rotation_stats,
                   varsA, varsK>>

M_CallerRecords(th) ==
    /\ threads[th].pc = "call"
    /\ Reported
    /\ M_Set([key_configs EXCEPT ![threads[th].key] = M_record_request(@, now)])
    /\ Called("success", threads[th].key, NoKey, <<>>)
    /\ threads' = [threads EXCEPT ![th] = Idle]
    /\ UNCHANGED <<lock, torn, now, ticks, api_keys, key_rotation_stats,
                   varsA, varsK>>

NextMC ==
    \/ \E th \in Threads : M_CallerSelects(th)
    \/ \E th \in Threads : M_CallerRecords(th)
    \/ M_Tick

SpecMC == InitM2 /\ [][NextMC]_vars


(***************************************************************************)
(* The claims.  One formula covers the three managers: Impl names the one  *)
(* the specification at hand runs, and the accessors below read its state. *)
(***************************************************************************)
Impl ==
    IF DOMAIN usage_stats # {} THEN "app"
    ELSE IF DOMAIN key_configs # {} THEN "api_manager"
    ELSE "api_key_manager"

Selected == last.op \in {"select_random", "select_priority"} /\ last.ret \in Configured
Checked == last.op = "status"

\* consecutiveFailures of key k
Failures(k) ==
    CASE Impl = "app" -> failure_counts[k]
      [] Impl = "api_key_manager" -> K_tracker(usage_trackers, k).consecutive_failures
      [] OTHER -> 0

\* the cooldown end of key k, if one is set
CooldownUntil(k) ==
    CASE Impl = "app" -> disabled_keys[k]
      [] Impl = "api_key_manager" ->
           LET tr == K_tracker(usage_trackers, k)
           IN  IF tr.is_rate_limited THEN tr.rate_limit_reset_time ELSE None
      [] OTHER -> key_configs[k].cooldown_until

\* the rate-limit marker of key k
RateLimitMarked(k) ==
    CASE Impl = "app" -> last_rate_limit[k] # None
      [] Impl = "api_key_manager" -> K_tracker(usage_trackers, k).is_rate_limited
      [] OTHER -> FALSE

\* the usage sequence of key k for a horizon of w seconds
Usage(k, w) ==
    CASE Impl = "app" ->
           IF w = MINUTE THEN usage_stats[k].requests_this_minute
           ELSE IF w = HOUR THEN usage_stats[k].requests_this_hour
           ELSE usage_stats[k].requests_this_day
      [] Impl = "api_key_manager" ->
           LET tr == K_tracker(usage_trackers, k)
           IN  IF w = MINUTE THEN tr.requests_this_minute
               ELSE IF w = HOUR THEN tr.requests_this_hour
               ELSE tr.requests_this_day
      [] OTHER ->
           IF w = MINUTE THEN key_configs[k].minute_requests
           ELSE IF w = HOUR THEN key_configs[k].hour_requests
           ELSE key_configs[k].day_requests

Limit(k, w) ==
    IF w = MINUTE THEN ConfigOf(k).max_requests_per_minute
    ELSE IF w = HOUR THEN ConfigOf(k).max_requests_per_hour
    ELSE ConfigOf(k).max_requests_per_day

Horizons == {MINUTE, HOUR, DAY}

\* how many of the timestamps of s lie in [t - w, t]
WindowCount(s, t, w) == Cardinality({ i \in DOMAIN s : t - w <= s[i] /\ s[i] <= t })

\* the backoff, in seconds, after f consecutive failures (threshold 3, base 5
\* minutes, cap 240 minutes)
BackoffSeconds(f) == Min2(5 * Pow2(f - 3), 240) * 60

InCooldown(k) == Truthy(CooldownUntil(k)) /\ now < Val(CooldownUntil(k))

InBackoff(k) ==
    /\ Failures(k) >= 3
    /\ Truthy(ghost.failed_at[k])
    /\ now - Val(ghost.failed_at[k]) <= BackoffSeconds(Failures(k))

\* the eligibility predicate: enabled, no cooldown, no failure backoff, and
\* every window of the successes reported below its limit
Eligible(k) ==
    /\ ConfigOf(k).enabled
    /\ ~InCooldown(k)
    /\ ~InBackoff(k)
    /\ \A w \in Horizons : WindowCount(ghost.recorded[k], now, w) < Limit(k, w)

\* the same with each window one second shorter, (t - w, t]: a key every
\* reading of the window boundary calls ineligible
QuotaFull(k) ==
    \E w \in Horizons : WindowCount(ghost.recorded[k], now, w - 1) >= Limit(k, w)

\* C1: a key returned by selection is enabled, not in cooldown, not in
\* failure backoff, and has every usage count below its limit at that moment.
C1_SelectedIsEligible ==
    Selected =>
        /\ ConfigOf(last.ret).enabled
        /\ ~InCooldown(last.ret)
        /\ ~InBackoff(last.ret)
        /\ ~QuotaFull(last.ret)

C1_Witness == Selected /\ ghost.recorded[last.ret] # <<>>


\* C2: once limits.per_minute successes lie within the last 60 seconds, an
\* eligibility check says no for as long as the oldest of them is at most 60
\* seconds old, and says yes again afterwards when no other rule blocks the
\* key.
C2_MinuteLimitBlocksForAMinute ==
    Checked =>
        \A k \in Configured :
            /\ WindowCount(ghost.recorded[k], now, MINUTE) >= Limit(k, MINUTE)
                  => ~last.avail[k]
            /\ Eligible(k) => last.avail[k]

C2_Witness ==
    /\ Checked
    /\ \E k \in Configured :
          /\ Len(ghost.recorded[k]) >= Limit(k, MINUTE)
          /\ ghost.recorded[k][1] = now - MINUTE

\* the pruning each manager applies to a usage sequence before counting it
Pruned(s, t, w) ==
    CASE Impl = "app" -> A_kept(s, t, w)
      [] Impl = "api_key_manager" -> clean_usage_queue(s, t, w)
      [] OTHER -> M_kept(s, t, w)

\* C3: the sliding-window count at time now is the number of successes
\* recorded at a time t with now - horizon <= t <= now; a success exactly
\* horizon seconds old is still counted.
C3_WindowCountIncludesBoundary ==
    \A k \in Configured : \A w \in Horizons :
        Len(Pruned(Usage(k, w), now, w)) = WindowCount(ghost.recorded[k], now, w)

C3_Witness ==
    \E k \in Configured : \E w \in Horizons :
        \E i \in DOMAIN ghost.recorded[k] : ghost.recorded[k][i] = now - w

\* key k had a rate-limit report without a reset time less than 24 hours ago
\* and no success since
RateLimitedWithinDay(k) ==
    Truthy(ghost.limited_at[k]) /\ now < Val(ghost.limited_at[k]) + DAY

\* C4: one rate-limit report without a reset time makes the key ineligible at
\* once and for the 24 hours that follow: the report sets the cooldown to end
\* exactly 24 hours later, no selection returns the key and no eligibility
\* check accepts it before that, and from the expiry on a check accepts it
\* when no other rule blocks it.
C4_RateLimitCoolsDownForADay ==
    /\ last.op = "rate_limited" => CooldownUntil(last.key) = Some(now + DAY)
    /\ Selected => ~RateLimitedWithinDay(last.ret)
    /\ Checked => \A k \in Configured :
          /\ RateLimitedWithinDay(k) => ~last.avail[k]
          /\ Eligible(k) => last.avail[k]

C4_Witness ==
    /\ Selected \/ Checked
    /\ \E k \in Configured :
          Truthy(ghost.limited_at[k]) /\ now > Val(ghost.limited_at[k])

\* C5: a success report leaves the key with no consecutive failures, no
\* cooldown and no rate-limit marker.
C5_SuccessClearsFailureState ==
    last.op = "success" =>
        /\ Failures(last.key) = 0
        /\ CooldownUntil(last.key) = None
        /\ ~RateLimitMarked(last.key)

C5_Witness == last.op = "success" /\ Truthy(ghost.failed_at[last.key])

SelectionMade == last.op \in {"select_random", "select_priority"}

\* C6: a key with at least 3 consecutive failures is ineligible for exactly
\* min(5 * 2^(failures - 3), 240) minutes after its last failure: no selection
\* returns it before that time has passed, and a selection that returns no key
\* leaves no key that failed, is past its (capped) backoff and is blocked by
\* no other rule.
C6_FailureBackoff ==
    /\ Selected => ~InBackoff(last.ret)
    /\ SelectionMade /\ last.ret \notin Configured =>
          \A k \in Configured :
              ~(Truthy(ghost.failed_at[k]) /\ ~RateLimitedWithinDay(k) /\ Eligible(k))

C6_Witness ==
    /\ SelectionMade
    /\ \E k \in Configured : Failures(k) >= 3 /\ Truthy(ghost.failed_at[k])

\* the failure backoff of key k has run out
BackoffElapsed(k) ==
    /\ Failures(k) >= 3
    /\ Truthy(ghost.failed_at[k])
    /\ now - Val(ghost.failed_at[k]) > BackoffSeconds(Failures(k))

\* the step that runs the eligibility check with the backoff rule:
\* _is_key_available is reached from get_keys_status only, and
\* _is_key_temporarily_disabled from get_available_key only
BackoffChecked == IF Impl = "app" THEN Checked ELSE SelectionMade

\* C7: the eligibility check that follows the end of a key's backoff resets its
\* consecutive failures to 0, and nothing but that or a success report on the
\* key ever resets them: the expiry of a rate-limit or daily-cap cooldown
\* leaves the failures as they are.
C7_OnlyBackoffExpiryResetsFailures ==
    [][\A k \in Configured :
          /\ BackoffElapsed(k) /\ BackoffChecked' /\ ConfigOf(k).enabled
                => Failures(k)' = 0
          /\ Failures(k) > 0 /\ Failures(k)' = 0
                => \/ last'.op = "success" /\ last'.key = k
                   \/ BackoffElapsed(k)]_vars

C7_Witness ==
    /\ BackoffChecked
    /\ \E k \in Configured :
          /\ Failures(k) = 0
          /\ Truthy(ghost.failed_at[k])
          /\ now - Val(ghost.failed_at[k]) > BackoffSeconds(3)
          /\ ghost.recorded[k] = <<>>

\* the two configured keys are a and b, both enabled with a limit of one
\* request per minute, a of priority 1 and b of priority 2
TwoKeys(a, b) ==
    /\ Configured = {a, b}
    /\ ConfigOf(a).enabled /\ ConfigOf(b).enabled
    /\ ConfigOf(a).priority = 1 /\ ConfigOf(b).priority = 2
    /\ Limit(a, MINUTE) = 1 /\ Limit(b, MINUTE) = 1

\* C8: with two enabled keys of one request per minute, of priorities 1 and 2,
\* the first selection in priority order returns the key of priority 1, and
\* the selection in priority order that follows a success reported on it at
\* once returns the key of priority 2.
C8_SecondSelectionRotates ==
    \A a, b \in Configured :
        TwoKeys(a, b) /\ last.op = "select_priority" =>
            /\ calls = 0 => last.ret = a
            /\ calls = 1 /\ ghost.recorded[a] = <<now>> => last.ret = b

C8_Witness ==
    \E a, b \in Configured :
        /\ TwoKeys(a, b)
        /\ last.op = "select_priority"
        /\ calls = 1
        /\ ghost.recorded[a] = <<now>>

\* the documented ordering of the candidates: priority ascending, health
\* (100 - 10 * failures - 2 * minute usage) descending, minute usage
\* ascending, failures ascending, key id ascending
DocKey(k) ==
    LET u == WindowCount(ghost.recorded[k], now, MINUTE)
        f == Failures(k)
    IN  << ConfigOf(k).priority, 0 - (100 - 10 * f - 2 * u), u, f, k >>

DocLess(a, b) ==
    \E i \in 1..5 : DocKey(a)[i] < DocKey(b)[i] /\ \A j \in 1..(i - 1) : DocKey(a)[j] = DocKey(b)[j]

EligibleSet == { k \in Configured : Eligible(k) }

\* C9: a selection in priority order returns the least key of the eligible
\* set under the documented ordering, whatever the order the keys are
\* configured in (and no key when the eligible set is empty).
C9_PrioritySelectionIsTheMinimum ==
    last.op = "select_priority" =>
        IF EligibleSet = {} THEN last.ret \notin Configured
        ELSE /\ last.ret \in EligibleSet
             /\ \A o \in EligibleSet \ {last.ret} : DocLess(last.ret, o)

C9_Witness ==
    /\ last.op = "select_priority"
    /\ Cardinality(EligibleSet) > 1
    /\ \E k \in EligibleSet : ghost.recorded[k] # <<>>

\* the keys a weighted random selection made now can return
RandomResults ==
    CASE Impl = "app" -> get_available_api_key(AState, TRUE, now)
      [] Impl = "api_key_manager" -> get_available_key(KState, TRUE, NoKey, now).rets
      [] OTHER -> M_get_available_key(key_configs, now).rets

\* C10: the weighted random selection can return exactly the eligible keys:
\* the only candidate when there is one, and each of N candidates, none of
\* them starved by its weight, when there are N; a random selection made
\* returned one of them.
C10_RandomSelectionReachesEveryEligibleKey ==
    EligibleSet # {} =>
        /\ RandomResults = EligibleSet
        /\ last.op = "select_random" => last.ret \in EligibleSet

C10_Witness ==
    /\ last.op = "select_random"
    /\ Cardinality(EligibleSet) > 1
    /\ \E k \in EligibleSet : ghost.recorded[k] # <<>> \/ Failures(k) > 0

\* a selection of any kind returned a key
Returned ==
    /\ last.op \in {"select_random", "select_priority", "force_rotation"}
    /\ last.ret \in Configured

\* C11: a key that is not enabled is never returned by a selection or a
\* forced rotation and never reported as able to make a request, whatever its
\* usage, cooldown or failures.
C11_DisabledKeyNeverEligible ==
    /\ Returned => ConfigOf(last.ret).enabled
    /\ Checked => \A k \in Configured : ~ConfigOf(k).enabled => ~last.avail[k]

C11_Witness ==
    /\ Returned \/ Checked
    /\ \E k \in Configured : ~ConfigOf(k).enabled

\* the time of the last rate-limit report kept for key k (only
\* AdvancedAPIKeyManager keeps one)
RateLimitedAt(k) == IF Impl = "app" THEN last_rate_limit[k] ELSE None

\* the reset time the last rate-limit report carried, if it carried one
ExplicitResetTime == IF last.op = "rate_limited_until" THEN Some(now + 2 * HOUR) ELSE None

\* C12: a rate-limit report on a key leaves its cooldown at the explicit reset
\* time when one is given and 24 hours ahead otherwise, its rate-limit time at
\* now, and its consecutive failures exactly one above what they were.
C12_RateLimitReportFields ==
    [][\A k \in Configured :
          last'.op \in {"rate_limited", "rate_limited_until"} /\ last'.key = k =>
              /\ CooldownUntil(k)' =
                    IF ExplicitResetTime' # None THEN ExplicitResetTime' ELSE Some(now' + DAY)
              /\ RateLimitedAt(k)' = Some(now')
              /\ Failures(k)' = Failures(k) + 1]_vars

C12_Witness == last.op = "rate_limited_until" /\ CooldownUntil(last.key) = Some(now + 2 * HOUR)

\* C13: when no key is eligible, also when every key is blocked by a quota
\* alone and none has a reset time, a selection returns no key and does not
\* raise an exception.
C13_NoEligibleKeyReturnsNone ==
    SelectionMade /\ EligibleSet = {} => last.ret = NoKey

C13_Witness ==
    /\ SelectionMade
    /\ EligibleSet = {}
    /\ \A k \in Configured : ~InCooldown(k) /\ CooldownUntil(k) = None /\ QuotaFull(k)

\* the in-memory runtime state of AdvancedAPIKeyManager
Mem(S) ==
    [usage_stats |-> S.usage_stats, disabled_keys |-> S.disabled_keys,
     failure_counts |-> S.failure_counts, last_used |-> S.last_used,
     last_rate_limit |-> S.last_rate_limit]

\* what one report does when nothing runs beside it
AloneReport(S, c) ==
    CASE c.op = "success" -> record_successful_request(S, c.key, c.t)
      [] c.op = "failure" -> A_record_failure(S, c.key, c.t)
      [] OTHER -> A_record_rate_limit_error(S, c.key, c.t)

\* the states the reports of the threads in D leave when made one after the
\* other, in any order, from state S
RECURSIVE SerialOutcomes(_, _)
SerialOutcomes(S, D) ==
    IF D = {} THEN {Mem(S)}
    ELSE UNION { SerialOutcomes(AloneReport(S, threads[th]), D \ {th}) : th \in D }

Finished == { th \in Threads : threads[th].pc = "done" }
Quiescent == \A th \in Threads : threads[th].pc \in {"idle", "done"}

\* C14: the calls of one manager are serialized: once the concurrent reports
\* have returned, the runtime state is the one some sequential order of the
\* same reports leaves (no update is lost, no decision rests on a record that
\* another thread changed in between).
C14_ConcurrentReportsAreSerializable ==
    Quiescent =>
        Mem(AState) \in SerialOutcomes(A_init(<<>>), Finished)

C14_Witness ==
    /\ Cardinality(Finished) = 2
    /\ \E k \in Configured : \A th \in Threads : threads[th].key = k

\* the usage entries of list s still inside a horizon of w seconds
Unexpired(s, w) == LET Keep(x) == now - x <= w IN SelectSeq(s, Keep)

\* runtime state R holds, for every configured key, what runtime state S
\* holds, up to usage entries that have left their horizon
SameRuntime(S, R) ==
    \A k \in Configured :
        /\ R.failure_counts[k] = S.failure_counts[k]
        /\ R.disabled_keys[k] = S.disabled_keys[k]
        /\ R.last_used[k] = S.last_used[k]
        /\ R.last_rate_limit[k] = S.last_rate_limit[k]
        /\ R.usage_stats[k].total_requests = S.usage_stats[k].total_requests
        /\ Unexpired(R.usage_stats[k].requests_this_minute, MINUTE)
              = Unexpired(S.usage_stats[k].requests_this_minute, MINUTE)
        /\ Unexpired(R.usage_stats[k].requests_this_hour, HOUR)
              = Unexpired(S.usage_stats[k].requests_this_hour, HOUR)
        /\ Unexpired(R.usage_stats[k].requests_this_day, DAY)
              = Unexpired(S.usage_stats[k].requests_this_day, DAY)
        /\ Len(R.usage_stats[k].requests_this_minute) <= Len(S.usage_stats[k].requests_this_minute)
        /\ Len(R.usage_stats[k].requests_this_hour) <= Len(S.usage_stats[k].requests_this_hour)
        /\ Len(R.usage_stats[k].requests_this_day) <= Len(S.usage_stats[k].requests_this_day)

SnapshotCurrent == status_file = persist_status(AState).status_file

\* C16: after every state-changing operation has completed (a success, a
\* rate-limit or a failure report, an eligibility check that clears an expired
\* cooldown or resets the failure count), the persisted snapshot equals the
\* in-memory state.
C16_SnapshotFollowsEveryChange ==
    [][/\ last'.op \in {"success", "rate_limited", "failure", "status",
                        "select_random", "select_priority"}
       /\ Mem(AState') # Mem(AState)
       => SnapshotCurrent']_vars

C16_Witness ==
    /\ last.op = "failure"
    /\ \E k \in Configured : failure_counts[k] > 0 /\ status_file # <<>> /\ status_file[k].failure_counts = 0

\* api_key_status.json holds a complete document (or does not exist)
FileWhole == torn = None

\* C17: snapshot writes are atomic: whether a write is cut short by a crash or
\* two writers run at once, the file is at every moment a complete document,
\* never empty or cut short, and a start of the process can always load it.
C17_SnapshotWritesAreAtomic ==
    /\ FileWhole
    /\ last.op = "restart" => last.ret # Raised

C17_Witness ==
    /\ \E th \in Threads : threads[th].pc = "done"
    /\ FileWhole
    /\ status_file # <<>>

\* the wait of thread th has just returned
WaitReturned(th) == last.op = "wait" /\ threads[th].op = "wait" /\ threads[th].pc = "done"

\* C18: a wait with max_wait_time = 0 made while no key is eligible returns the
\* timed-out result (no key) at once, without a single sleep.
C18_ZeroWaitReturnsAtOnce ==
    \A th \in Threads :
        WaitReturned(th) /\ threads[th].max_wait_time = 0 /\ EligibleSet = {} =>
            /\ last.ret = NoKey
            /\ threads[th].key = NoKey
            /\ threads[th].sleeps = 0
            /\ threads[th].t = threads[th].start_time

C18_Witness ==
    /\ WaitReturned(1)
    /\ threads[1].max_wait_time = 0
    /\ EligibleSet = {}
    /\ \E k \in Configured : ConfigOf(k).enabled /\ QuotaFull(k)
    /\ last.ret = NoKey

\* what is left of the budget of waiter c at time t
RemainingBudget(c, t) == c.max_wait_time - (t - c.start_time)

\* C19: in the wait loop every sleep is at most min(current backoff, remaining
\* budget), the backoff starts at one second and doubles up to 60 seconds, and
\* the wait returns no later than max_wait_time after it began.
C19_SleepsStayWithinBudget ==
    \A th \in Threads :
        /\ threads[th].pc = "sleeping" =>
              /\ threads[th].sleep <= Min2(threads[th].wait_time,
                                           RemainingBudget(threads[th], threads[th].slept_at))
              /\ threads[th].wait_time = Min2(Pow2(threads[th].sleeps - 1), 60)
        /\ threads[th].op = "wait" /\ threads[th].pc = "done" =>
              threads[th].t - threads[th].start_time <= threads[th].max_wait_time

C19_Witness ==
    /\ WaitReturned(1)
    /\ threads[1].sleeps >= 1
    /\ last.ret \in Configured

\* the waiters that stand before a `with self._lock`
Blocked == { th \in Threads : threads[th].pc \in {"lock_get", "lock_next"} }

\* C20: a waiter never holds the manager lock while it sleeps; the lock is held
\* only by a thread that is inside get_available_key or
\* get_next_available_time, which leaves it on return, so that waiters standing
\* before the lock are never blocked for good: while a wait is in progress
\* some step can always be taken.
C20_NoLockHeldWhileSleeping ==
    /\ \A th \in Sleeping : lock # th
    /\ lock # 0 => threads[lock].pc \in {"get", "next"}
    /\ Blocked # {} => lock = 0 \/ threads[lock].pc \in {"get", "next"}
    /\ ~NoWait => ENABLED NextMW2

C20_Witness ==
    /\ threads[1].pc = "sleeping"
    /\ lock = 2
    /\ threads[2].sleeps >= 1

\* lastUsed of key k
LastUsed(k) ==
    CASE Impl = "app" -> last_used[k]
      [] Impl = "api_key_manager" -> K_tracker(usage_trackers, k).last_used
      [] OTHER -> None

\* everything the manager holds about key k
Record(k) ==
    <<Failures(k), CooldownUntil(k), RateLimitedAt(k), LastUsed(k),
      Usage(k, MINUTE), Usage(k, HOUR), Usage(k, DAY)>>

\* C21: a success, rate-limit or failure report for an id that is not
\* registered completes without raising and leaves the record of every
\* registered key as it was.
C21_UnknownIdReportsAreSafe ==
    [][last'.key \in UnknownIds =>
          /\ last'.ret # Raised
          /\ \A k \in Configured : Record(k)' = Record(k)]_vars

C21_Witness == last.key \in UnknownIds /\ last.op = "rate_limited"

\* C22: the consecutive failures of a key are never negative, go up by exactly
\* one on each failure reported for it, and otherwise change only by one such
\* step up (a failure or rate-limit report for the key) or by a reset to 0 that
\* a success reported for the key or the end of its failure backoff causes; no
\* selection, status query, cleanup, snapshot or end of a rate-limit cooldown
\* changes them.
C22_FailureCountChangesOnlyByRule ==
    [][\A k \in Configured :
          /\ Failures(k)' >= 0
          /\ last'.op = "failure" /\ last'.key = k => Failures(k)' = Failures(k) + 1
          /\ Failures(k)' # Failures(k) =>
                \/ /\ Failures(k)' = Failures(k) + 1
                   /\ last'.op \in {"failure", "rate_limited", "rate_limited_until"}
                   /\ last'.key = k
                \/ /\ Failures(k)' = 0
                   /\ \/ last'.op = "success" /\ last'.key = k
                      \/ BackoffElapsed(k)]_vars

C22_Witness ==
    /\ last.op = "status"
    /\ \E k \in Configured :
          /\ Failures(k) = 0
          /\ Truthy(ghost.limited_at[k])
          /\ ghost.recorded[k] = <<>>
          /\ ghost.failed_at[k] = None

\* the step that runs the quota checks of every enabled key: _is_key_available
\* is reached from get_keys_status only, _is_key_within_limits from
\* get_available_key and from get_all_keys_status
LimitsChecked == IF Impl = "app" THEN Checked ELSE SelectionMade \/ Checked

\* C23: an eligibility check that finds the per-day count of an enabled key
\* (one with no cooldown and no failure backoff before the check) at or above
\* its per-day limit leaves the key's cooldown at the start of the next
\* calendar day, whichever other quota is exhausted as well, and does not
\* return it.
C23_DailyCapCoolsDownUntilMidnight ==
    [][\A k \in Configured :
          /\ LimitsChecked'
          /\ ConfigOf(k).enabled
          /\ CooldownUntil(k) = None
          /\ Failures(k) < 3
          /\ Len(Usage(k, DAY)') >= Limit(k, DAY)
          => /\ CooldownUntil(k)' = Some(NextMidnight(now))
             /\ last'.ret # k]_vars

C23_Witness ==
    /\ LimitsChecked
    /\ \E k \in Configured :
          /\ Len(Usage(k, DAY)) >= Limit(k, DAY)
          /\ CooldownUntil(k) = Some(NextMidnight(now))
          /\ Len(Usage(k, MINUTE)) < Limit(k, MINUTE)

\* the last outcome reported for key k was a rate limit, at ghost.limited_at[k],
\* less than a minute ago
JustRateLimited(k) ==
    Truthy(ghost.limited_at[k]) /\ now - Val(ghost.limited_at[k]) < 60

Fresh(k) ==
    \A w \in Horizons : \A i \in DOMAIN Usage(k, w) : now - Usage(k, w)[i] <= w

\* C25: a usage sequence that was read to decide or to compute something was
\* pruned against the current time first: after a status report no sequence of
\* any key, and after a selection no sequence of the key returned (whose weight
\* or sort key was computed from them), holds a timestamp older than its
\* horizon.
C25_ReadsSeePrunedUsage ==
    /\ Checked => \A k \in Configured : Fresh(k)
    /\ Selected => Fresh(last.ret)

C25_Witness ==
    /\ Selected
    /\ Usage(last.ret, DAY) # <<>>
    /\ Len(Usage(last.ret, MINUTE)) < Len(Usage(last.ret, DAY))

\* C26: a status report is read-only: the step that makes it leaves the
\* failure count, the cooldown, the rate-limit time and the last-used time of
\* every key as they were and writes no snapshot.
C26_StatusIsReadOnly ==
    [][last'.op = "status" =>
          /\ \A k \in Configured :
                /\ Failures(k)' = Failures(k)
                /\ CooldownUntil(k)' = CooldownUntil(k)
                /\ RateLimitedAt(k)' = RateLimitedAt(k)
                /\ LastUsed(k)' = LastUsed(k)
          /\ status_file' = status_file]_vars

C26_Witness ==
    /\ Checked
    /\ \E k \in Configured : Failures(k) > 0 /\ Usage(k, DAY) # <<>>

\* s is what pruning leaves of t: t from some position on
IsTail(s, t) == \E i \in 0..Len(t) : s = SubSeq(t, i + 1, Len(t))

\* the step reports an outcome of the set o for key k
ReportOf(o, k) == last'.op \in o /\ last'.key = k

\* C27: a rate-limit or failure report on a key leaves its last-used time and
\* its three usage windows as they were and leaves the whole record of every
\* other key as it was; a usage window gains an entry, or the last-used time
\* changes, only in a success report on that key.
C27_OnlySuccessTouchesUsage ==
    [][\A k \in Configured :
          /\ ReportOf({"rate_limited", "rate_limited_until", "failure"}, k) =>
                /\ LastUsed(k)' = LastUsed(k)
                /\ \A w \in Horizons : Usage(k, w)' = Usage(k, w)
                /\ \A j \in Configured \ {k} : Record(j)' = Record(j)
          /\ \/ LastUsed(k)' # LastUsed(k)
             \/ \E w \in Horizons : ~IsTail(Usage(k, w)', Usage(k, w))
             => ReportOf({"success"}, k)]_vars

C27_Witness ==
    /\ last.op \in {"rate_limited", "rate_limited_until", "failure"}
    /\ last.key \in Configured
    /\ \E j \in Configured \ {last.key} :
          Truthy(LastUsed(j)) /\ Usage(j, MINUTE) # <<>>

\* C28: every upstream call has exactly one report, made on the key the call
\* was made with and with the outcome the call had: the n-th report is the
\* report of the n-th upstream call.
C28_OneOutcomePerAttempt ==
    /\ Len(threads[1].outcomes) = Len(threads[1].upstream)
    /\ \A i \in DOMAIN threads[1].outcomes :
          threads[1].outcomes[i] =
              [key |-> threads[1].upstream[i].key,
               outcome |-> threads[1].upstream[i].outcome, attempt |-> i]

C28_Witness ==
    /\ threads[1].pc = "run"
    /\ Len(threads[1].upstream) = 2
    /\ threads[1].upstream[1].outcome \in Errors
    /\ threads[1].upstream[2].outcome = "success"
    /\ threads[1].upstream[1].key # threads[1].upstream[2].key
    /\ C28_OneOutcomePerAttempt

\* a forced rotation away from key last.key, or a selection that excludes it
Rotated ==
    \/ last.op = "force_rotation"
    \/ last.op \in {"select_random", "select_priority"} /\ last.key \in Configured

\* C29: a forced rotation, and a selection with exclude_key, returns no key or
\* an enabled, eligible key other than the current one, and never raises; when
\* the current key is the only eligible one it returns no key.
C29_RotationLeavesTheCurrentKey ==
    Rotated =>
        /\ last.ret \in Configured \cup {NoKey}
        /\ last.ret # last.key
        /\ last.ret \in Configured => ConfigOf(last.ret).enabled /\ Eligible(last.ret)
        /\ EligibleSet = {last.key} => last.ret = NoKey

C29_Witness ==
    /\ Rotated
    /\ EligibleSet = {last.key}
    /\ last.ret = NoKey

\* what APIKeyConfig.get_next_available_time returns for key k now, and
\* whether can_make_request of key k would answer yes at time t with nothing
\* more recorded
NextAvailable(k) == get_next_available_time(ConfigOf(k), key_configs[k], now).ret
WouldAllow(k, t) == can_make_request(ConfigOf(k), key_configs[k], t).ret

\* the times from now on at which the answer of can_make_request can change:
\* the end of the cooldown and the times the recorded requests leave a window
ChangeTimes(k) ==
    { t \in {now}
         \cup (IF Truthy(key_configs[k].cooldown_until)
               THEN {Val(key_configs[k].cooldown_until)} ELSE {})
         \cup UNION { { Usage(k, w)[i] + w : i \in DOMAIN Usage(k, w) } :
                       w \in Horizons } :
      t >= now }

\* C30: for an enabled key, get_next_available_time returns the earliest time
\* at which can_make_request would answer yes with no further request
\* recorded: now when the key is available now, cooldown_until during a
\* cooldown, and a time at which every exhausted quota has room again.
C30_NextAvailableTimeIsTheEarliest ==
    last.op = "next_available_time" =>
        \A k \in Configured : ConfigOf(k).enabled =>
            /\ Truthy(NextAvailable(k))
            /\ WouldAllow(k, Val(NextAvailable(k)))
            /\ \A t \in ChangeTimes(k) : t < Val(NextAvailable(k)) => ~WouldAllow(k, t)
            /\ WouldAllow(k, now) => Val(NextAvailable(k)) = now
            /\ InCooldown(k) => NextAvailable(k) = CooldownUntil(k)

C30_Witness ==
    /\ last.op = "next_available_time"
    /\ \E k \in Configured :
          /\ ConfigOf(k).enabled
          /\ Len(Usage(k, MINUTE)) >= Limit(k, MINUTE)
          /\ Len(Usage(k, HOUR)) < Limit(k, HOUR)
          /\ NextAvailable(k) = Some(Usage(k, MINUTE)[1] + MINUTE)
          /\ WouldAllow(k, Val(NextAvailable(k)))

\* C31: within one call of Manus.think no two consecutive upstream calls are
\* made with the same key: a failed key is tried again neither when the
\* manager offers no other key nor when it offers the same one.
C31_RetryOnlyAfterRotation ==
    \A i \in DOMAIN threads[1].upstream : i > 1 =>
        LET a == threads[1].upstream[i - 1]
            b == threads[1].upstream[i]
        IN  a.think = b.think => a.key # b.key

C31_Witness ==
    /\ Len(threads[1].upstream) >= 2
    /\ threads[1].upstream[1].think = threads[1].upstream[2].think
    /\ threads[1].upstream[1].key # threads[1].upstream[2].key

\* the number of upstream calls made by the n-th call of think
AttemptsOf(n) ==
    Cardinality({ i \in DOMAIN threads[1].upstream : threads[1].upstream[i].think = n })

InThink == threads[1].pc \in {"think", "rotate", "last"}
Returned32 == threads[1].pc = "run" /\ threads[1].thinks > 0
RaisedByThink == threads[1].pc = "except"

\* the exits of think, and what holds at each: a return follows a successful
\* upstream call, a raise follows max_retries failed ones and carries the
\* error of the last; the prompt is the one think was entered with; the end
\* of the loop is never reached
ThinkExits ==
    /\ \A n \in 1..threads[1].thinks : AttemptsOf(n) <= max_retries(threads[1])
    /\ threads[1].pc # "returned_false"
    /\ Returned32 =>
          /\ threads[1].upstream[Len(threads[1].upstream)].outcome = "success"
          /\ threads[1].next_step_prompt = threads[1].original_prompt
    /\ RaisedByThink =>
          /\ threads[1].upstream[Len(threads[1].upstream)].outcome \in Errors
          /\ threads[1].op = threads[1].upstream[Len(threads[1].upstream)].outcome
          /\ AttemptsOf(threads[1].thinks) = max_retries(threads[1])
          /\ threads[1].next_step_prompt = threads[1].original_prompt

\* C32: a call of Manus.think ends, after at most max_retries upstream calls
\* (3 with a key manager, 1 without), by returning the result of a successful
\* call or by raising the error of the last one; the return False after the
\* loop is never reached, and next_step_prompt has its original value at
\* every exit.
C32_ThinkTerminatesAndRestores ==
    /\ []ThinkExits
    /\ InThink ~> (Returned32 \/ RaisedByThink)

C32_Witness ==
    /\ RaisedByThink
    /\ threads[1].current_key_config # NoKey
    /\ AttemptsOf(threads[1].thinks) = 3
    /\ threads[1].thinks = 2

\* the keys a task attempt was begun with or an upstream call was made with
KeysUsed ==
    { threads[1].tried[i] : i \in DOMAIN threads[1].tried }
    \cup { threads[1].upstream[i].key : i \in DOMAIN threads[1].upstream }

\* C33: main begins at most len(api_keys) task attempts, ends with Task failed
\* after trying all available API keys only when every enabled configured key
\* was used for an attempt, and does not return as if the task had completed
\* when no attempt was made.
C33_MainTriesEveryKey ==
    /\ Len(threads[1].tried) <= Len(api_keys)
    /\ threads[1].pc = "failed" =>
          \A k \in Configured : ConfigOf(k).enabled => k \in KeysUsed
    /\ threads[1].pc \in {"returned", "done"} => threads[1].tried # <<>>

C33_Witness ==
    /\ threads[1].pc = "failed"
    /\ \A k \in Configured : k \in KeysUsed
    /\ Len(threads[1].tried) = Len(api_keys)

\* C34: a rate-limit or failure report on a key that is in a cooldown leaves
\* the key in a cooldown that ends no earlier than the one it was in.
C34_ReportsNeverShortenACooldown ==
    [][\A k \in Configured :
          ReportOf({"rate_limited", "rate_limited_until", "failure"}, k)
          /\ InCooldown(k) =>
              /\ Truthy(CooldownUntil(k)')
              /\ Val(CooldownUntil(k)') >= Val(CooldownUntil(k))]_vars

C34_Witness ==
    /\ last.op \in {"rate_limited", "rate_limited_until", "failure"}
    /\ last.key \in Configured
    /\ InCooldown(last.key)
    /\ Failures(last.key) >= 2

\* the requests recorded for key k in the window (now - w, now]
Inside(k, w) == WindowCount(ghost.recorded[k], now, w - 1)

\* C35: with callers that take a key from a selection and record the request
\* after their call, the number of requests recorded for a key inside a
\* trailing window never exceeds the limit of that window.
C35_RecordedUsageStaysWithinLimits ==
    \A k \in Configured : \A w \in Horizons : Inside(k, w) <= Limit(k, w)

C35_Witness ==
    /\ \E k \in Configured : Inside(k, MINUTE) = Limit(k, MINUTE)
    /\ \A th \in Threads : threads[th].pc = "idle"
    /\ calls = 2
    /\ C35_RecordedUsageStaysWithinLimits

\* ---- a locked key while the clock runs on ------------------------------------
\* key k is among the values the selection operation can return at time t
CouldReturn(k, t) ==
    CASE Impl = "app" -> k \in get_available_api_key(AState, TRUE, t)
      [] Impl = "api_key_manager" ->
           k \in get_available_key(KState, TRUE, NoKey, t).rets
      [] OTHER -> k \in M_get_available_key(key_configs, t).rets

LockedOut(k) == ConfigOf(k).enabled /\ ~CouldReturn(k, now)

\* the process sleeps for a day and a minute (time.sleep in the callers' wait
\* loops; no manager method runs).  Thread 2 is the sleeper: pos is one more
\* than the number of outcomes that had been reported when it last slept, and
\* it sleeps again only after a further outcome.
Quiet ==
    /\ threads[2].pos <= calls
    /\ threads' = [threads EXCEPT ![2].pos = calls + 1]
    /\ now' = now + DAY + MINUTE
    /\ ticks' = ticks + 1
    /\ last' = [op |-> "quiet", key |-> NoKey, ret |-> NoKey, avail |-> <<>>]
    /\ UNCHANGED <<lock, torn, calls, api_keys, ghost, varsA, varsK, varsM>>

\* the calls of each manager, with the sleeping process as the only clock
NextAL ==
    \/ A_GetAvailableApiKey
    \/ A_RecordSuccessfulRequest
    \/ A_RecordRateLimitError
    \/ A_RecordFailure
    \/ A_GetKeysStatus
    \/ Quiet

NextKL ==
    \/ K_GetAvailableKey
    \/ K_RecordRequest
    \/ K_RecordRateLimitError
    \/ K_RecordFailure
    \/ K_GetAllKeysStatus
    \/ Quiet

NextML ==
    \/ M_GetAvailableKey
    \/ M_RecordRequest
    \/ M_HandleRateLimitError
    \/ M_GetAllKeysStatus
    \/ M_GetNextAvailableTime
    \/ Quiet

SpecAL == InitA /\ [][NextAL]_vars /\ WF_vars(Quiet)
SpecKL == InitK /\ [][NextKL]_vars /\ WF_vars(Quiet)
SpecML == InitM /\ [][NextML]_vars /\ WF_vars(Quiet)

\* the same with the short advances of the clock between the calls
SpecALT == InitA /\ [][NextAL \/ A_Tick]_vars /\ WF_vars(Quiet)
SpecKLT == InitK /\ [][NextKL \/ K_Tick]_vars /\ WF_vars(Quiet)
SpecMLT == InitM /\ [][NextML \/ M_Tick]_vars /\ WF_vars(Quiet)

\* C36: no permanent lockout.  Whenever an enabled key cannot be returned by
\* the selection operation, and the clock keeps advancing, the key can be
\* returned again at some later moment: every cooldown, failure backoff,
\* rate-limit marker and usage window runs out.
C36_NoPermanentLockout ==
    \A i \in 1..2 :
        (i \in DOMAIN api_keys /\ LockedOut(api_keys[i].api_key))
            ~> (i \in DOMAIN api_keys /\ CouldReturn(api_keys[i].api_key, now))

C36_Witness ==
    /\ last.op = "quiet"
    /\ \E k \in Configured :
         /\ ConfigOf(k).enabled
         /\ CouldReturn(k, now)
         /\ ~CouldReturn(k, now - DAY - MINUTE)
         /\ Failures(k) >= 3

\* C37: the status report agrees with selection.  A status report made in a
\* state calls a key available (can_make_request) exactly when the selection
\* operation could return that key in the same state.
C37_StatusAgreesWithSelection ==
    [][last'.op = "status" =>
          \A k \in Configured : last'.avail[k] <=> CouldReturn(k, now)]_vars

C37_Witness ==
    /\ last.op = "status"
    /\ \E k \in Configured : ~last.avail[k] /\ ~CouldReturn(k, now)

\* the window w of key k after pruning at time t
PrunedWindow(k, w, t) == Pruned(Usage(k, w), t, w)

Sorted(s) == \A i, j \in DOMAIN s : i <= j => s[i] <= s[j]

NoCallInProgress == \A th \in Threads : threads[th].pc = "idle"

\* C38: in every state in which no call is in progress, for every key, after
\* pruning the three windows at the same time, the minute window is a suffix
\* of the hour window and the hour window a suffix of the day window (so
\* minute count <= hour count <= day count), and each stored sequence is in
\* non-decreasing order of its timestamps.
C38_WindowsAreNestedSuffixes ==
    NoCallInProgress =>
        \A k \in Configured :
            LET m == PrunedWindow(k, MINUTE, now)
                h == PrunedWindow(k, HOUR, now)
                d == PrunedWindow(k, DAY, now)
            IN  /\ IsTail(m, h)
                /\ IsTail(h, d)
                /\ Len(m) <= Len(h) /\ Len(h) <= Len(d)
                /\ \A w \in Horizons : Sorted(Usage(k, w))

C38_Witness ==
    /\ NoCallInProgress
    /\ C38_WindowsAreNestedSuffixes
    /\ \E k \in Configured :
         /\ Len(Usage(k, DAY)) >= 2
         /\ Len(PrunedWindow(k, MINUTE, now)) = 1
         /\ Len(PrunedWindow(k, HOUR, now)) = 2
         /\ Usage(k, MINUTE) # PrunedWindow(k, MINUTE, now)

=============================================================================
